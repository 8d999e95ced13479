------------------------------ MODULE ObjectMap ------------------------------
(***************************************************************************)
(* What a bucket promises its clients: a map from names to the one live    *)
(* version of each object, changed and read by calls that take effect at   *)
(* one instant between their arrival and their answer.  There are no       *)
(* blobs, no reference counts, no files and no lock here.                  *)
(*                                                                         *)
(* A call answered "ok" has had its effect exactly once, any other answer  *)
(* means it had none; a new version of an object always has a larger       *)
(* generation than the version it replaces; a crash forgets the calls in   *)
(* flight and keeps the map.                                               *)
(***************************************************************************)
EXTENDS Naturals

CONSTANTS Clients, Names, ValidNames, Contents, CondSet, Nil

VARIABLES
  live,    \* name -> live version, Nil when there is none
  req,     \* the call each client has outstanding, or Nil
  seen,    \* the version a reading call found
  reply    \* the answer, "none" until the call has taken effect

absVars == <<live, req, seen, reply>>

Version == [generation : Nat \ {0}, metageneration : {1}, sha256 : Contents]

Calls == [op : {"put", "delete", "get", "copy"}, src : Names, name : Names,
          content : Contents \cup {Nil}, conds : CondSet]

Init ==
  /\ live = [n \in Names |-> Nil]
  /\ req = [p \in Clients |-> Nil]
  /\ seen = [p \in Clients |-> Nil]
  /\ reply = [p \in Clients |-> "none"]

Gen(v) == IF v = Nil THEN 0 ELSE v.generation
Metagen(v) == IF v = Nil THEN 0 ELSE v.metageneration

\* A precondition speaks of the version it is evaluated on; generation 0
\* stands for "no such object".
Permits(k, v) ==
  /\ k.generationMatch \in {Nil, Gen(v)}
  /\ k.metagenerationMatch \in {Nil, Metagen(v)}
  /\ v # Nil => /\ k.generationNotMatch # Gen(v)
                /\ k.metagenerationNotMatch # Metagen(v)

Pending(p) == req[p] # Nil /\ reply[p] = "none"

Answer(p, w) == reply' = [reply EXCEPT ![p] = w]

Call(p) ==
  /\ req[p] = Nil
  /\ req'[p] \in Calls
  /\ req' = [req EXCEPT ![p] = req'[p]]
  /\ UNCHANGED <<live, seen, reply>>

\* An upload or a copy becomes the live version.
Write(p) ==
  LET n == req[p].name
  IN  /\ Pending(p)
      /\ req[p].op \in {"put", "copy"}
      /\ n \in ValidNames
      /\ Permits(req[p].conds, live[n])
      /\ live'[n] \in Version
      /\ live'[n].sha256 = req[p].content
      /\ live'[n].generation > Gen(live[n])
      /\ live' = [live EXCEPT ![n] = live'[n]]
      /\ Answer(p, "ok")
      /\ UNCHANGED <<req, seen>>

Erase(p) ==
  LET n == req[p].name
  IN  /\ Pending(p)
      /\ req[p].op = "delete"
      /\ live[n] # Nil
      /\ Permits(req[p].conds, live[n])
      /\ live' = [live EXCEPT ![n] = Nil]
      /\ Answer(p, "ok")
      /\ UNCHANGED <<req, seen>>

\* A mutation whose precondition does not hold changes nothing.
Refuse(p) ==
  /\ Pending(p)
  /\ req[p].op \in {"put", "copy", "delete"}
  /\ ~Permits(req[p].conds, live[req[p].name])
  /\ Answer(p, "precondition")
  /\ UNCHANGED <<live, req, seen>>

\* There is nothing to read, copy or delete.
Miss(p) ==
  /\ Pending(p)
  /\ req[p].op \in {"get", "copy", "delete"}
  /\ live[req[p].src] = Nil
  /\ Answer(p, "notfound")
  /\ UNCHANGED <<live, req, seen>>

\* A read takes effect when it finds the live version ...
Look(p) ==
  /\ Pending(p)
  /\ req[p].op \in {"get", "copy"}
  /\ live[req[p].src] # Nil
  /\ seen' = [seen EXCEPT ![p] = live[req[p].src]]
  /\ UNCHANGED <<live, req, reply>>

\* ... and then serves exactly that version, if its preconditions allow,
Serve(p) ==
  /\ Pending(p)
  /\ req[p].op = "get"
  /\ seen[p] # Nil
  /\ Answer(p, IF Permits(req[p].conds, seen[p]) THEN "ok"
               ELSE "precondition")
  /\ UNCHANGED <<live, req, seen>>

\* or makes it the content that a copy will write.
Take(p) ==
  /\ Pending(p)
  /\ req[p].op = "copy"
  /\ seen[p] # Nil
  /\ req' = [req EXCEPT ![p].content = seen[p].sha256]
  /\ UNCHANGED <<live, seen, reply>>

\* A call may fail, without effect, until it has taken effect.
Fail(p) ==
  /\ Pending(p)
  /\ \E w \in {"error", "invalid"} : Answer(p, w)
  /\ UNCHANGED <<live, req, seen>>

Return(p) ==
  /\ reply[p] # "none"
  /\ req' = [req EXCEPT ![p] = Nil]
  /\ seen' = [seen EXCEPT ![p] = Nil]
  /\ reply' = [reply EXCEPT ![p] = "none"]
  /\ UNCHANGED live

\* The server restarts.
Forget ==
  /\ req' = [p \in Clients |-> Nil]
  /\ seen' = [p \in Clients |-> Nil]
  /\ reply' = [p \in Clients |-> "none"]
  /\ UNCHANGED live

Next ==
  \/ \E p \in Clients :
       \/ Call(p) \/ Write(p) \/ Erase(p) \/ Refuse(p) \/ Miss(p)
       \/ Look(p) \/ Serve(p) \/ Take(p) \/ Fail(p) \/ Return(p)
  \/ Forget

Spec == Init /\ [][Next]_absVars

=============================================================================
