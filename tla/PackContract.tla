---------------------------- MODULE PackContract ----------------------------
(***************************************************************************)
(* What the reference packs promise to whoever reads them under the lock:  *)
(* every call is one step.  A pack is the sequence of those who wrote its  *)
(* revisions; a write adds its own at the end, a read is told of them all, *)
(* and a call that was answered otherwise changed nothing - except a write *)
(* whose caller did not learn that it had succeeded, and a creation that   *)
(* failed and spoiled its pack, which every call refuses from then on.     *)
(* There are no locks, staging directories or clean-ups here.              *)
(***************************************************************************)
EXTENDS Naturals, Sequences

CONSTANTS PackIds, Writers

VARIABLES
    history,    (* pack -> who wrote its revisions 1, 2, ...; <<>>: no pack  *)
    told,       (* pack -> the revisions a caller was told of                *)
    spoiled,    (* the packs that are corrupt                                *)
    calls       (* caller -> what it asked for, and its answer               *)

contractVars == <<history, told, spoiled, calls>>

Seed == "seed"

Init ==
    /\ history \in [PackIds -> {<<>>, <<Seed>>}]
    /\ told = [k \in PackIds |-> {}]
    /\ spoiled = {}
    /\ calls = [w \in Writers |-> [kind |-> "none", pack |-> "none", result |-> "none"]]

Asks(w, kinds) == calls[w].kind \in kinds /\ calls[w].result = "none"
Reply(w, answer) == calls' = [calls EXCEPT ![w].result = answer]
Exists(k) == history[k] # <<>>

Begin(w) ==
    /\ calls[w].kind = "none"
    /\ calls'[w] \in [kind : {"create", "revise", "history", "list", "open"},
                      pack : PackIds, result : {"none"}]
    /\ calls' = [calls EXCEPT ![w] = calls'[w]]
    /\ UNCHANGED <<history, told, spoiled>>

(* A creation writes the first revision, a new revision comes after the    *)
(* latest; who was not told of it was told that it failed, or died.        *)
Write(w) ==
    LET k == calls[w].pack
    IN  /\ Asks(w, {"create", "revise"}) /\ k \notin spoiled
        /\ Exists(k) <=> calls[w].kind = "revise"
        /\ history' = [history EXCEPT ![k] = Append(@, w)]
        /\ \/ /\ Reply(w, "ok")
              /\ told' = [told EXCEPT ![k] = @ \cup {Len(history[k]) + 1}]
           \/ /\ \E answer \in {"failed", "died"} : Reply(w, answer)
              /\ UNCHANGED told
        /\ UNCHANGED spoiled

(* A creation that fails, and whose undoing fails, leaves less than a pack *)
(* where there was none.                                                   *)
Spoil(w) ==
    /\ Asks(w, {"create"}) /\ ~Exists(calls[w].pack)
    /\ spoiled' = spoiled \cup {calls[w].pack}
    /\ \E answer \in {"failed", "died"} : Reply(w, answer)
    /\ UNCHANGED <<history, told>>

(* A read finds every revision in its place: no pack that was written is   *)
(* ever corrupt.                                                           *)
Read(w) ==
    LET k == calls[w].pack
    IN  /\ Asks(w, {"history", "list"}) /\ Exists(k)
        /\ told' = [told EXCEPT ![k] = @ \cup 1 .. Len(history[k])]
        /\ Reply(w, "ok")
        /\ UNCHANGED <<history, spoiled>>

(* A creation is refused where there is a pack, the others where there is  *)
(* none; and all of them where a pack is spoiled, though who asks for one  *)
(* revision may be told that it is unknown.                                *)
Refuse(w) ==
    LET k == calls[w].pack
    IN  /\ Asks(w, {"create", "revise", "history", "list"})
        /\ \/ /\ k \notin spoiled /\ (Exists(k) <=> calls[w].kind = "create")
              /\ Reply(w, IF Exists(k) THEN "exists" ELSE "unknown")
           \/ k \in spoiled /\ Reply(w, "corrupt")
           \/ k \in spoiled /\ calls[w].kind = "history" /\ Reply(w, "unknown")
        /\ UNCHANGED <<history, told, spoiled>>

Open(w) == Asks(w, {"open"}) /\ Reply(w, "ok") /\ UNCHANGED <<history, told, spoiled>>

(* Nothing was done. *)
GiveUp(w) ==
    /\ Asks(w, {"create", "revise", "history", "list", "open"})
    /\ \E answer \in {"timeout", "vanished", "failed", "died"} : Reply(w, answer)
    /\ UNCHANGED <<history, told, spoiled>>

Next ==
    \E w \in Writers :
        Begin(w) \/ Write(w) \/ Spoil(w) \/ Read(w) \/ Refuse(w) \/ Open(w) \/ GiveUp(w)

Spec == Init /\ [][Next]_contractVars
=============================================================================
