------------------------------ MODULE TcpHeader ------------------------------
(***************************************************************************)
(* How many bytes a session reads and discards for the header of a frame   *)
(* (tcp_pubsub/src/tcp_header.h, readHeaderContent() of both sessions).    *)
(*                                                                         *)
(* A header begins with its own length, so that a peer may send a longer   *)
(* or a shorter one than this version's: what is known is read into the    *)
(* struct, what is missing keeps its default, what is left is discarded.   *)
(* All lengths are uint16_t.  On a little endian host header_size is used  *)
(* as it was received; elsewhere the code compares it before le16toh() has *)
(* put its bytes in order, and the operators do not apply.                 *)
(***************************************************************************)
EXTENDS Naturals

UInt16 == {n \in Nat : n < 65536}
Narrow(n) == n % 65536   \* an int is converted to uint16_t

SizeOfLength == 2    \* sizeof(header_size)
MyHeaderSize == 12   \* sizeof(TcpHeader)
DataSizeAt == 4      \* the offset of data_size

TooShort(header_size) == header_size < SizeOfLength

Smaller(a, b) == IF a < b THEN a ELSE b

(* The difference is an int, negative below the length's own size.         *)
BytesToRead(remote) ==
  Narrow(Smaller(remote, MyHeaderSize) + 65536 - SizeOfLength)

(* Faulty variant: only what is left of a header twice as long.            *)
BytesToDiscardOfLongest(remote) ==
  IF remote > 2 * MyHeaderSize THEN Narrow(remote - MyHeaderSize) ELSE 0

BytesToDiscard(remote) ==
  IF remote > MyHeaderSize THEN Narrow(remote - MyHeaderSize) ELSE 0

(* A header that ends before data_size leaves it 0, its default.           *)
WithoutDataSize(remote) == remote <= DataSizeAt
=============================================================================
