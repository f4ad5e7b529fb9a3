---------------------------- MODULE IconPictures ----------------------------
(* The icons of Visitors with what they show: the files a database from    *)
(* before icons were converted may hold are those CgBI converts.           *)
EXTENDS Visitors, CgBI

(* Swapping bytes of the filtered lines, without undoing the filters, is   *)
(* the same as swapping the colours: the picture UIKit shows of a CgBI     *)
(* file is the one any browser shows of its conversion, and converting     *)
(* again changes nothing, so that an icon is rewritten once.  What cannot  *)
(* be converted is given back.  This is said of sizes that fit an int: of  *)
(* a larger one the wrapped product is compared with the data, and the     *)
(* loop of the code may leave them.  No step changes what the conversion   *)
(* does: it is asked of the files there are before the first.              *)
NormalizationKeepsPicture == Init => \A f \in Files : KeepsPicture(f)

=============================================================================
