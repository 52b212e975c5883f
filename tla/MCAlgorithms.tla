---------------------------- MODULE MCAlgorithms ----------------------------
(***************************************************************************)
(* An instance of Algorithms.                                              *)
(***************************************************************************)
EXTENDS Algorithms

MCDefaultFields == <<"error_msg", "error", "msg">>
MCEnvironmentFields == <<"env">>
MCFieldOrder == <<"env", "error", "error_msg", "msg">>
MCProjectFields == {<<>>, <<"msg">>, <<"msg", "error_msg", "env">>}

MCWrappings ==
  {<< <<"json">>, <<"fence">> >>, << <<"json">>, <<>> >>,
   << <<"fence", "space">>, <<"fence", "x">> >>, << <<"x">>, <<"quote", "x">> >>}
=============================================================================
