---------------------------- MODULE MCImplicitStream ---------------------------
(* ImplicitStream on small instances: one stream that has just been made,  *)
(* and one whose indices and whose claims are about to wrap around.        *)
EXTENDS ImplicitStream

MCStarts == {<<0, 0>>, <<15, 14>>}

================================================================================
