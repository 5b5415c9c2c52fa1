---------------------------- MODULE MCFwDownload -----------------------------
(***************************************************************************)
(* Images for TLC. Image builds the record from a section table, with the  *)
(* section starts computed independently of the code's loop.               *)
(***************************************************************************)
EXTENDS FwDownload, SequencesExt

CONSTANT Kind   (* which set of images a run uses *)

StartOf(ver, secs, i) ==
    (IF ver = 0 THEN 32 ELSE 48) + 16 * Len(secs)
        + FoldLeft(LAMBDA a, b : a + b, 0, SubSeq(secs, 1, i - 1))

Image(ver, secs, size) ==
    [ver |-> ver, secs |-> secs, size |-> size,
     at  |-> [i \in 1..Len(secs) + 1 |-> StartOf(ver, secs, i)]]

(* An image exactly as long as its sections.                               *)
Exact(ver, secs) == Image(ver, secs, StartOf(ver, secs, Len(secs) + 1))

(* A section of exactly one packet, of one byte more than a packet, of     *)
(* three packets; empty sections first, between and last; no section at    *)
(* all; an image shorter than its table says; one below 64 bytes.          *)
SmallImages ==
    {Exact(0, <<2020, 2021>>), Exact(1, <<0, 5000, 0, 7>>), Exact(0, <<1, 0>>),
     Exact(1, <<>>), Image(1, <<3000, 10>>, 2000), Image(0, <<>>, 63)}

(* One section more than the loop looks at.                                *)
LongImages == {Exact(0, [i \in 1..17 |-> 1])}

(* firmware/rtw8852b_fw.bin as rtw89_fw_download reads it: byte 15 is 0,   *)
(* the version; byte 25 is 26, the number of sections; their sizes follow. *)
(* The file is 1035232 bytes long.                                         *)
ShippedSizes ==
    <<269128, 538120, 786704, 2104064, 2022, 255120, 11800, 2048, 12517412,
      4365952, 12998488, 178401, 4366068, 10616856, 2520336, 10616848, 178401,
      4337400, 2497708, 4440958, 4257801, 14680072, 127223, 2109728, 4839178, 127223>>

ShippedImages == {Image(0, ShippedSizes, 1035232)}

MCImages ==
    CASE Kind = "small"   -> SmallImages
      [] Kind = "long"    -> LongImages
      [] Kind = "shipped" -> ShippedImages
=============================================================================
