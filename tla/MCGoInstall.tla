------------------------------ MODULE MCGoInstall ------------------------------
(* Services, trimming and collectors for TLC. *)
EXTENDS GoInstall

MCServices == {"foo", " foo ", "bar", ""}
MCTrim == [s \in MCServices |-> IF s = " foo " THEN "foo" ELSE s]
MCCollectors == <<"build_info", "requests", "process">>
=============================================================================
