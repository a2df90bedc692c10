------------------------------- MODULE MCIpc -------------------------------
(***************************************************************************)
(* A small instance of Ipc: three tasks, of which t1 is the most urgent    *)
(* one, and a handler t4.                                                  *)
(***************************************************************************)
EXTENDS Ipc

CONSTANTS t1, t2, t3, t4

Three == {t1, t2, t3}
Two   == {t1, t2}
Prios == (t1 :> 1) @@ (t2 :> 2) @@ (t3 :> 3)

\* a sender and a receiver that block, and a task that uses the other services
UseOfMbx == (t1 :> {"send_until", "unblock"}) @@ (t2 :> {"receive"})
            @@ (t3 :> {"send_if", "receive_wp"})
UseOfOvr == (t1 :> {"ovrwr"}) @@ (t2 :> {"ovrwr", "send_if", "send_wp"}) @@ (t3 :> {})

UseOfCall == [t \in Three |-> {"send", "rpc", "receive", "receive_from", "return"}]
\* two clients with timeouts
UseOfLate == (t1 :> {"send_until", "rpc_if"}) @@ (t2 :> {"rpc_until", "send_if"})
             @@ (t3 :> {"receive", "receive_until", "receive_from", "return"})
UseOfKill == (t1 :> {"send", "rpc"}) @@ (t2 :> {"rpc", "receive"}) @@ (t3 :> {"receive", "return"})
UseOfExt == (t1 :> {"sendx", "rpcx"}) @@ (t2 :> {"sendx", "rpcx"})
            @@ (t3 :> {"receive", "receive_if", "return"})
UseOfExtLate == (t1 :> {"sendx_until"}) @@ (t2 :> {"rpcx_until"}) @@ (t3 :> {"receive", "return"})

\* two processes that move bytes, one that changes the size, and a handler
UseOfFifo == (t1 :> {"write"}) @@ (t2 :> {"read_all"}) @@ (t3 :> {"reset", "resize"})
             @@ (t4 :> {"put", "get_if"})
UseOfPair == (t1 :> {"write_timed", "write"}) @@ (t2 :> {"read_timed", "read", "poll"})
UseOfSem  == (t1 :> {"sem_wait", "sem_timed_wait"}) @@ (t2 :> {"sem_wait"})
             @@ (t4 :> {"sem_post", "sem_trywait"})
=============================================================================
