---------------------------- MODULE MCIpcServer ----------------------------
(***************************************************************************)
(* IpcServer with two handle values and a client that may send a command,  *)
(* a shutdown with a command behind it, and parts of a long line.          *)
(***************************************************************************)
EXTENDS IpcServer

MCChunks == {[commands |-> <<"empty", "other">>, rest |-> 1],
             [commands |-> <<"shutdown", "other">>, rest |-> 0],
             [commands |-> <<>>, rest |-> 1]}
=============================================================================
