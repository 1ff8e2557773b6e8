--------------------------- MODULE ChirpyProgress ---------------------------
(***************************************************************************)
(* Progress of the server: a handler that has begun goes on, because Go    *)
(* schedules every goroutine that can run and PostgreSQL answers every     *)
(* statement, with an error if need be. Nothing is assumed of clients, of  *)
(* the clock, of crashes or of requests that have not begun.               *)
(***************************************************************************)
EXTENDS ChirpyRefinement

\* The steps of a request that is already being worked on.
Continue(r) ==
    \/ putCreate(r) \/ putFind(r) \/ putDelete(r)
    \/ loginSession(r) \/ refreshMint(r)
    \/ chirpInsert(r) \/ chirpDelete(r)
    \/ resetUsers(r) \/ resetHits(r)

FairSpec == Spec /\ \A r \in Request : WF_vars(Continue(r))

(***************************************************************************)
(* Every request is answered (or dies with the process): no handler waits  *)
(* for another, retries without end, or reaches a point where none of its  *)
(* continuations applies, whatever the others did to the rows it read.     *)
(***************************************************************************)
RequestsAnswered == \A r \in Request : ~At(r, "idle") ~> At(r, "idle")

(***************************************************************************)
(* PUT /api/users that has inserted the new account comes to an end with   *)
(* the old one gone, unless a statement failed or the process died: the    *)
(* two accounts do not stay side by side.                                  *)
(***************************************************************************)
PutEndsWithOne ==
    \A r \in Request, id \in UserID :
        (req[r].at \in {"put.find", "put.delete"} /\ req[r].old.id = id)
            ~> (~UserExists(id) \/ faults > 0)
=============================================================================
