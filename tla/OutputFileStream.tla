---------------------------- MODULE OutputFileStream ----------------------------
(***************************************************************************)
(* ThreadSafeOutputFileStream: every write pushes its message into a       *)
(* concurrent queue; the one that wins the exchange of msgBeingLogged_     *)
(* writes what it finds there to the file, for all the others.             *)
(***************************************************************************)
EXTENDS Naturals, Sequences

CONSTANTS Writer,    \* threads that write
          Message,   \* what they write, each message once
          NoMessage

ASSUME WriterAssumption == NoMessage \notin Message

VARIABLES
  waitingMessages_,
  msgBeingLogged_,
  file_,
  isOpen,    \* until the destructor has closed file_
  at,        \* where each writer is in write
  tmp,       \* the message it has popped
  said       \* history: the messages in the order of their push

streamVars == <<waitingMessages_, msgBeingLogged_, file_, isOpen, at, tmp, said>>

InitStream ==
  /\ waitingMessages_ = <<>>
  /\ msgBeingLogged_ = FALSE
  /\ file_ = <<>>
  /\ isOpen = TRUE
  /\ at = [w \in Writer |-> "out"]
  /\ tmp = [w \in Writer |-> NoMessage]
  /\ said = <<>>

Move(w, from, to) == at[w] = from /\ at' = [at EXCEPT ![w] = to]

(* waitingMessages_.push *)
Write(w, m) ==
  /\ isOpen
  /\ \A i \in DOMAIN said : said[i] # m
  /\ Move(w, "out", "pushed")
  /\ waitingMessages_' = Append(waitingMessages_, m)
  /\ said' = Append(said, m)
  /\ UNCHANGED <<msgBeingLogged_, file_, isOpen, tmp>>

(* Mutant of TakeOver: a test and a set. *)
TakeOverUntested(w) ==
  /\ Move(w, "pushed", "logging")
  /\ msgBeingLogged_' = TRUE
  /\ UNCHANGED <<waitingMessages_, file_, isOpen, tmp, said>>

(* The exchange: whoever finds the flag set leaves its message to others. *)
TakeOver(w) ==
  /\ \/ ~msgBeingLogged_ /\ Move(w, "pushed", "logging")
     \/ msgBeingLogged_ /\ Move(w, "pushed", "out")
  /\ msgBeingLogged_' = TRUE
  /\ UNCHANGED <<waitingMessages_, file_, isOpen, tmp, said>>

TryPop(w) ==
  /\ waitingMessages_ # <<>>
  /\ Move(w, "logging", "popped")
  /\ tmp' = [tmp EXCEPT ![w] = Head(waitingMessages_)]
  /\ waitingMessages_' = Tail(waitingMessages_)
  /\ UNCHANGED <<msgBeingLogged_, file_, isOpen, said>>

Log(w) ==
  /\ Move(w, "popped", "logging")
  /\ file_' = Append(file_, tmp[w])
  /\ tmp' = [tmp EXCEPT ![w] = NoMessage]
  /\ UNCHANGED <<waitingMessages_, msgBeingLogged_, isOpen, said>>

(* try_pop fails; a message that is pushed before the flag is cleared      *)
(* stays in the queue until the next write, or the destructor.             *)
FindEmpty(w) ==
  /\ waitingMessages_ = <<>>
  /\ Move(w, "logging", "leaving")
  /\ UNCHANGED <<waitingMessages_, msgBeingLogged_, file_, isOpen, tmp, said>>

StoreFalse(w) ==
  /\ Move(w, "leaving", "out")
  /\ msgBeingLogged_' = FALSE
  /\ UNCHANGED <<waitingMessages_, file_, isOpen, tmp, said>>

(* Mutant of Close: forgets the messages that nobody came back for. *)
CloseAtOnce ==
  /\ isOpen
  /\ \A w \in Writer : at[w] = "out"
  /\ isOpen' = FALSE
  /\ waitingMessages_' = <<>>
  /\ UNCHANGED <<file_, msgBeingLogged_, at, tmp, said>>

(* The destructor, which nobody may race with. *)
Close ==
  /\ isOpen
  /\ \A w \in Writer : at[w] = "out"
  /\ file_' = file_ \o waitingMessages_
  /\ waitingMessages_' = <<>>
  /\ isOpen' = FALSE
  /\ UNCHANGED <<msgBeingLogged_, at, tmp, said>>

NextStream ==
  \/ \E w \in Writer : \/ \E m \in Message : Write(w, m)
                       \/ TakeOver(w) \/ TryPop(w) \/ Log(w) \/ FindEmpty(w)
                       \/ StoreFalse(w)
  \/ Close

StreamSpec == InitStream /\ [][NextStream]_streamVars

----------------------------------------------------------------------------
Logs(w) == at[w] \in {"logging", "popped", "leaving"}

(* The messages that are popped and not in the file. *)
InHand == {m \in Message : \E w \in Writer : tmp[w] = m}

(* One writer at a time uses file_, and what it writes is in the order in  *)
(* which the messages were pushed: the file, the one message in a writer's *)
(* hand and the queue are, one after the other, all that was ever pushed.  *)
WrittenInOrder ==
  /\ \A v, w \in Writer : Logs(v) /\ Logs(w) => v = w
  /\ \/ InHand = {} /\ said = file_ \o waitingMessages_
     \/ \E m \in Message : /\ InHand = {m}
                           /\ said = Append(file_, m) \o waitingMessages_

(* The closed file has every message, also those that were pushed between  *)
(* a failed try_pop and the clearing of the flag.                          *)
ClosedFileIsComplete == ~isOpen => file_ = said

----------------------------------------------------------------------------
StreamTypeOK ==
  /\ waitingMessages_ \in Seq(Message)
  /\ msgBeingLogged_ \in BOOLEAN
  /\ file_ \in Seq(Message)
  /\ isOpen \in BOOLEAN
  /\ at \in [Writer -> {"out", "pushed", "logging", "popped", "leaving"}]
  /\ tmp \in [Writer -> Message \cup {NoMessage}]
  /\ said \in Seq(Message)

(* A writer that logs owns the flag, and a message is in its hand exactly  *)
(* between the pop and the insertion.                                      *)
StreamIInv ==
  /\ StreamTypeOK
  /\ \A w \in Writer : Logs(w) => msgBeingLogged_
  /\ \A w \in Writer : at[w] = "popped" <=> tmp[w] # NoMessage
  /\ ~isOpen => waitingMessages_ = <<>> /\ \A w \in Writer : at[w] = "out"
  /\ WrittenInOrder
=============================================================================
