---------------------------- MODULE MCApiGateway ----------------------------
(***************************************************************************)
(* ApiGateway for TLC: a writer and a reader, and a master whose address   *)
(* the others were not given.                                              *)
(***************************************************************************)
EXTENDS ApiGateway

CONSTANTS m1, m2, m3, writer, reader

MCMasters == {m1, m2, m3}
MCListed == {m1, m2}
MCClients == {writer, reader}
MCRole == [c \in MCClients |-> IF c = writer THEN "WRITER" ELSE "READER"]
=============================================================================
