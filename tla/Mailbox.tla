------------------------------ MODULE Mailbox ------------------------------
(***************************************************************************)
(* What the file store promises, with the database, the blob store, the    *)
(* crashes and the failed calls hidden: a file is deposited at one         *)
(* instant, its content is handed out only while it is stored, removal is  *)
(* one instant too and final, and an acknowledgement never precedes what   *)
(* it acknowledges.  A file is listed as long as it is stored, and         *)
(* afterwards until somebody takes it off the list.  FileService is shown  *)
(* to implement this module.                                               *)
(***************************************************************************)
CONSTANTS
  Files,      \* identifiers of files
  Requests    \* identifiers of requests

VARIABLES
  state,      \* state[f]: "unsent", then "stored", then "gone"
  listed,     \* files that lists show and requests find
  acked,      \* files whose deposit has been acknowledged
  fetched,    \* pairs <<q, f>>: request q has obtained the content of f
  confirmed   \* files whose removal has been acknowledged

mailboxVars == <<state, listed, acked, fetched, confirmed>>

MailboxInit ==
  /\ state = [f \in Files |-> "unsent"]
  /\ listed = {}
  /\ acked = {}
  /\ fetched = {}
  /\ confirmed = {}

(* The file becomes available and its sender is told so. *)
Deposit(f) ==
  /\ state[f] = "unsent"
  /\ state' = [state EXCEPT ![f] = "stored"]
  /\ listed' = listed \cup {f}
  /\ acked' = acked \cup {f}
  /\ UNCHANGED <<fetched, confirmed>>

(* The content of a stored file is handed to request q. *)
Fetch(q, f) ==
  /\ state[f] = "stored"
  /\ fetched' = fetched \cup {<<q, f>>}
  /\ UNCHANGED <<state, listed, acked, confirmed>>

(* The content becomes unavailable for good. *)
Remove(f) ==
  /\ state[f] = "stored"
  /\ state' = [state EXCEPT ![f] = "gone"]
  /\ UNCHANGED <<listed, acked, fetched, confirmed>>

(* It leaves the lists, which tells nobody anything. *)
Unlist(f) ==
  /\ state[f] = "gone"
  /\ listed' = listed \ {f}
  /\ UNCHANGED <<state, acked, fetched, confirmed>>

(* The requester of a deletion is told that it happened. *)
Confirm(f) ==
  /\ state[f] = "gone"
  /\ listed' = listed \ {f}
  /\ confirmed' = confirmed \cup {f}
  /\ UNCHANGED <<state, acked, fetched>>

MailboxNext ==
  \E f \in Files :
    \/ Deposit(f)
    \/ Remove(f)
    \/ Unlist(f)
    \/ Confirm(f)
    \/ \E q \in Requests : Fetch(q, f)

MailboxSpec == MailboxInit /\ [][MailboxNext]_mailboxVars
=============================================================================
