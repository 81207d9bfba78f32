----------------------------- MODULE FileService -----------------------------
(***************************************************************************)
(* What the clients of the server may expect of its files: they change by  *)
(* whole uploads only, an upload and a download happen in one step, at the *)
(* moment they are answered 226, and an upload that is not answered has    *)
(* not happened.                                                           *)
(***************************************************************************)
EXTENDS Naturals, Sequences

CONSTANTS
  Clients,
  Nothing,    \* the content of a file that is not there
  Stock       \* name -> its content at the start

VARIABLES
  store,      \* name -> its content, or Nothing
  served      \* client -> the transfer it has just been answered, or Nothing

Serve(c, verb, name, pos, data) ==
  /\ served[c] = Nothing
  /\ served' = [served EXCEPT ![c] = [verb |-> verb, file |-> name, pos |-> pos, data |-> data]]

\* A new file.
Store(c, name, data) ==
  /\ store[name] = Nothing
  /\ store' = [store EXCEPT ![name] = data]
  /\ Serve(c, "STOR", name, 0, data)

\* More of a file, which need not be there.
AppendTo(c, name, data) ==
  /\ store' = [store EXCEPT ![name] = IF @ = Nothing THEN data ELSE @ \o data]
  /\ Serve(c, "APPE", name, 0, data)

\* All of a file from a position on.
Retrieve(c, name, pos) ==
  /\ store[name] # Nothing /\ pos <= Len(store[name])
  /\ Serve(c, "RETR", name, pos, SubSeq(store[name], pos + 1, Len(store[name])))
  /\ UNCHANGED store

\* The client takes notice.
Notice(c) ==
  /\ served[c] # Nothing
  /\ served' = [served EXCEPT ![c] = Nothing]
  /\ UNCHANGED store

ServiceInit == store = Stock /\ served = [c \in Clients |-> Nothing]

\* The step tells which transfer it is: served' holds it.
ServiceNext ==
  \E c \in Clients :
    \/ Notice(c)
    \/ /\ served'[c] # Nothing
       /\ \/ Store(c, served'[c].file, served'[c].data)
          \/ AppendTo(c, served'[c].file, served'[c].data)
          \/ Retrieve(c, served'[c].file, served'[c].pos)

Spec == ServiceInit /\ [][ServiceNext]_<<store, served>>
=============================================================================
