-------------------------- MODULE TelegramControl ---------------------------
(***************************************************************************)
(* The chat commands (backend/app/bot/telegram.py): a poller fetches       *)
(* batches of updates and handles them one by one, each in a transaction   *)
(* that acts, writes an audit row and commits.  The question a two-step    *)
(* command waits on, and how far the poller has read, are in the memory of *)
(* the process; the chat server forgets an update once it is asked for a   *)
(* later one.                                                              *)
(***************************************************************************)
EXTENDS Integers, FiniteSets

CONSTANTS
  NoQuestion,
  MaxMessages, MaxChatMishaps \* bounds

ASSUME ChatAssumption == MaxMessages \in Nat

VARIABLES
  chat,       \* the messages sent; update i is chat[i]
  forgotten,  \* the server has forgotten the updates below
  offset,     \* what the poller asks for next
  batch,      \* the updates fetched and not yet looked at
  pending,    \* the question last asked and not answered
  globalMode, \* the global switch
  killFile,   \* the kill switch, as the loop reads it
  audited,    \* updates with an audit row
  \* History and bound.
  failed,     \* updates whose handling failed
  chatMishaps

chatVars == <<chat, forgotten, offset, batch, pending, globalMode, killFile, audited, failed, chatMishaps>>

\* A command without and with its last word, and what changes nothing.  Going live is
\* allowed by the settings, and /mode off does what /mode paper does.
Questions == {"kill", "live"}
Commands == {"kill", "kill confirm", "live", "live confirm", "paper", "status"}
Updates == DOMAIN chat

ChatInit ==
  /\ chat = <<>> /\ forgotten = 1
  /\ offset = 0 /\ batch = {} /\ pending = NoQuestion
  /\ globalMode = "off" /\ killFile = FALSE
  /\ audited = {} /\ failed = {} /\ chatMishaps = 0

Send ==
  /\ Cardinality(Updates) < MaxMessages
  /\ \E m \in Commands : chat' = [i \in Updates \cup {Cardinality(Updates) + 1} |->
                                    IF i \in Updates THEN chat[i] ELSE m]
  /\ UNCHANGED <<forgotten, offset, batch, pending, globalMode, killFile, audited, failed, chatMishaps>>

Later(a, b) == IF a < b THEN b ELSE a

\* getUpdates answers with all it has not forgotten.
PollUpdates ==
  /\ batch = {}
  /\ forgotten' = Later(forgotten, offset)
  /\ batch' = {i \in Updates : i >= forgotten'}
  /\ UNCHANGED <<chat, offset, pending, globalMode, killFile, audited, failed, chatMishaps>>

PollFails ==
  /\ batch = {}
  /\ chatMishaps < MaxChatMishaps /\ chatMishaps' = chatMishaps + 1
  /\ forgotten' = Later(forgotten, offset)
  /\ UNCHANGED <<chat, offset, batch, pending, globalMode, killFile, audited, failed>>

\* A two-step command goes through when it is repeated, or when its last word is given
\* at once; anything else asks.
LastWord == [kill |-> "kill confirm", live |-> "live confirm"]
Confirmed(q, m) == m = LastWord[q] \/ (m = q /\ pending = q)
Asks(q, m) == m = q /\ pending # q

\* _dispatch: what a message makes of the question, the kill file and the switch.  Going
\* live may be refused by the gate, which leaves the question as it is.
QuestionAfter(m, refused) ==
  CASE \E q \in Questions : Asks(q, m) -> m
    [] Confirmed("kill", m) -> NoQuestion
    [] Confirmed("live", m) -> IF refused THEN pending ELSE NoQuestion
    [] m = "paper" -> NoQuestion
    [] m = "status" -> pending

ModeAfter(m, refused) ==
  IF m = "paper" THEN "paper"
  ELSE IF Confirmed("live", m) /\ ~refused THEN "live" ELSE globalMode

NextOffset_OfBatch(i) == 1 + CHOOSE j \in batch : \A k \in batch : k <= j

\* The poller moves on before it handles the update.
NextOffset(i) == i + 1

Take(i) ==
  /\ i \in batch /\ \A j \in batch : i <= j
  /\ offset' = NextOffset(i)
  /\ UNCHANGED <<chat, forgotten>>

\* The memory and the file are changed before the commit, the rest by it.
Remembers(i, refused) ==
  /\ pending' = QuestionAfter(chat[i], refused)
  /\ killFile' = (killFile \/ Confirmed("kill", chat[i]))

Handle(i) ==
  /\ Take(i)
  /\ \E refused \in BOOLEAN :
       Remembers(i, refused) /\ globalMode' = ModeAfter(chat[i], refused)
  /\ audited' = audited \cup {i}
  /\ batch' = batch \ {i}
  /\ UNCHANGED <<failed, chatMishaps>>

\* An exception, before anything was done or at the commit, leaves the whole batch.
HandleFails(i) ==
  /\ Take(i)
  /\ chatMishaps < MaxChatMishaps /\ chatMishaps' = chatMishaps + 1
  /\ \/ UNCHANGED <<pending, killFile>>
     \/ \E refused \in BOOLEAN : Remembers(i, refused)
  /\ failed' = failed \cup {i}
  /\ batch' = {}
  /\ UNCHANGED <<globalMode, audited>>

\* The worker is restarted: run_polling starts again from nothing.
RestartPolling ==
  /\ chatMishaps < MaxChatMishaps /\ chatMishaps' = chatMishaps + 1
  /\ offset' = 0 /\ batch' = {} /\ pending' = NoQuestion
  /\ UNCHANGED <<chat, forgotten, globalMode, killFile, audited, failed>>

\* The operator clears the kill switch through the API.
ClearElsewhere ==
  /\ killFile /\ killFile' = FALSE
  /\ UNCHANGED <<chat, forgotten, offset, batch, pending, globalMode, audited, failed, chatMishaps>>

ChatNext ==
  \/ Send \/ PollUpdates \/ PollFails \/ RestartPolling \/ ClearElsewhere
  \/ \E i \in Updates : Handle(i) \/ HandleFails(i)

ChatSpec == ChatInit /\ [][ChatNext]_chatVars

ChatTypeOK ==
  /\ \A i \in Updates : chat[i] \in Commands
  /\ forgotten \in 1..(MaxMessages + 1) /\ offset \in 0..(MaxMessages + 1)
  /\ batch \subseteq Updates /\ pending \in Questions \cup {NoQuestion}
  /\ globalMode \in {"off", "paper", "live"} /\ killFile \in BOOLEAN
  /\ audited \cup failed \subseteq Updates

\* "every command (accepted or rejected) is written to audit_log": an update that the
\* server will not give again has its row, unless its own handling failed, wherever in a
\* batch another one failed, whatever answer of the server was lost, and across restarts.
EveryCommandIsAudited == \A i \in Updates : i < forgotten => i \in audited \cup failed
=============================================================================
