---------------------------- MODULE MCQueryIndex ----------------------------
(* Two records, two runs of one partition beside a request, or of two      *)
(* partitions of a table nobody changes.                                   *)
EXTENDS QueryIndex

ReindexUses ==
  {<<"tenant", FALSE>>, <<"organization", FALSE>>, <<"organization", TRUE>>}

\* The first run is of the tenant or forced, the second as the API starts it;
\* either may wait before it does anything.
UsesInOrder ==
  /\ run'[1].pc = "prepare" => <<run'[1].kind, run'[1].force>> # <<"organization", FALSE>>
  /\ run'[2].pc = "prepare" => <<run'[2].kind, run'[2].force>> = <<"organization", FALSE>>

RebuildUses == Kinds \X {TRUE}
=============================================================================
