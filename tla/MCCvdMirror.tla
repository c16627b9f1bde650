---------------------------- MODULE MCCvdMirror ----------------------------
(***************************************************************************)
(* Small instances of CvdMirror: a few updates, any of which may be the    *)
(* first.                                                                  *)
(***************************************************************************)
EXTENDS CvdMirror, TLC

AnyUpdate == Permutations(Update)
=============================================================================
