--------------------------- MODULE MCShareAndFork ---------------------------
(***************************************************************************)
(* An instance of ShareAndFork for TLC: one owner's command, one visitor's *)
(* command, one share.                                                     *)
(***************************************************************************)
EXTENDS ShareAndFork

OneShare == {1}

SomeCommands ==
    [kind : {"share"}, mode : {"ask", "yes"}, deploys : {"no"}, link : {"newest"}, reshare : {"keep"}]
      \cup [kind : {"off"}, mode : {"ask"}, deploys : {"no"}, link : {"newest"}, reshare : {"keep"}]

SomeOrders ==
    [mode : {"ask"}, wait : {"yes", "no"}, select : {"yes"}, directory : {"linked", "other"}]
      \cup [mode : {"yes"}, wait : {"yes", "no"}, select : {"no"}, directory : {"other"}]
=============================================================================
