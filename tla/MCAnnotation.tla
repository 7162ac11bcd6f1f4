---------------------------- MODULE MCAnnotation ----------------------------
(* Constants of Annotation for TLC: small articles with every placement of *)
(* sentence ends, and two chunk sizes a user may switch between.           *)
EXTENDS Annotation

TwoSizes == {1, 2}
OneSize  == {2}
=============================================================================
