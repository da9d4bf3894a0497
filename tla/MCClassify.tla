----------------------------- MODULE MCClassify -----------------------------
(* A small instance of Classify: texts that differ in a word, one of them    *)
(* longer than a signature.                                                  *)
EXTENDS Classify

MCTemplates == { <<"no", "answer", Hole>>, <<"no", Hole, "left", "at all">> }
=============================================================================
