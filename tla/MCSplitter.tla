----------------------------- MODULE MCSplitter -----------------------------
(* LengthBasedSplitter for TLC, with the layouts the services use: that of *)
(* the plist services; that of usbmuxd, whose length field counts the      *)
(* whole frame; and that of AFC, where it does and comes after an offset.  *)
EXTENDS LengthBasedSplitter, TLC

Layout(littleEndian, offset, adjustment, maxFrameLength, lengths) ==
  [littleEndian |-> littleEndian, offset |-> offset, adjustment |-> adjustment,
   maxFrameLength |-> maxFrameLength, lengths |-> lengths]

PlistLayout == Layout(FALSE, 0, 2, 5, {1, 3, 4, 5, 7})
AfcLayout == Layout(TRUE, 2, -2, 6, {4, 5, 6, 7})
UsbmuxLayout == Layout(TRUE, 0, 0, 5, {2, 4, 5, 6})
AllLayouts == {PlistLayout, UsbmuxLayout, AfcLayout}

SmallPlistLayout == {Layout(FALSE, 0, 2, 4, {1, 3, 4})}
=============================================================================
