---------------------------- MODULE MCEnclaveHandle ----------------------------
(* Instances of EnclaveHandle for TLC.                                         *)
EXTENDS EnclaveHandle

(* Sizes are in units of half a MiB. *)
PageMap == <<12, 8, 4>>

SomePages == {<<1, 1, 2>>, <<0, 3, 1>>}

(* 32 MiB wrap to nothing, 18 MiB are negative when signed. *)
SomeArgs ==
  [cid : {TRUE}, mem : {4, 6, 11, 14, 18, 32, 38}, list : {<<>>}, count : {1}] \cup
  [cid : {FALSE}, mem : {6}, list : {<<>>}, count : {0, 2, 4}] \cup
  [cid : {FALSE}, mem : {6}, list : {<<3, 2>>, <<0, 2>>, <<2, 2>>, <<5>>, <<4>>}, count : {0}]

SomePools == {<<<<2, 3>>, <<5>>>>, <<<<3, 2>>, <<2, 2>>, <<3>>>>, <<<<1, 2, 3>>>>}

SomeCpus == {{2, 3}}
================================================================================
