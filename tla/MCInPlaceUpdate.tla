--------------------------- MODULE MCInPlaceUpdate ---------------------------
(* Instances of InPlaceUpdate for TLC; the other constants are in the cfg    *)
(* files.                                                                    *)
EXTENDS InPlaceUpdate

NewImage == {<<2, 1, 1>>}
NewEndpoint == {<<1, 1, 2>>}
ImageOrEndpoint == {<<2, 1, 1>>, <<1, 1, 2>>}
Anything == {<<2, 2, 1>>, <<2, 3, 2>>}
=============================================================================
