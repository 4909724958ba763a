------------------------------ MODULE MCUsbmux ------------------------------
(* Usbmux and its properties, for TLC. *)
EXTENDS UsbmuxProperties, TLC
==========================================================================
