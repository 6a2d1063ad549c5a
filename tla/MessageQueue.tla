---------------------------- MODULE MessageQueue ----------------------------
(***************************************************************************)
(* ipc/u6.6_mqueue: each run of the program is a process that creates the  *)
(* System V message queue of MSG_KEY, sends to it, receives from it or     *)
(* removes it.  Between msgget and the call that follows other processes   *)
(* go on: the queue may be full, empty, removed, or made anew under another*)
(* identifier.                                                             *)
(***************************************************************************)
EXTENDS Integers, Sequences, SequencesExt

CONSTANTS
    Processes,
    MaxQueues,      \* bound: the queues made one after the other
    Capacity        \* the messages a queue holds: its bytes over MAX_DATA

QueueConstants ==
    /\ MaxQueues \in Nat \ {0} /\ Capacity \in Nat \ {0}
    /\ "garbage" \notin Processes

Commands == {"create", "snd", "snd-empty", "rcv", "close", "other"}

VARIABLES
    cmd,        \* -s of each process
    at,         \* "none", "msgget", "msgctl", "msgsnd", "msgrcv" or its exit code
    msqid,      \* what msgget returned
    content,    \* what rcv printed: a sender, or "garbage"
    queues,     \* every queue made: [messages, alive]
    sent,       \* the senders whose messages each queue took, in order
    taken       \* the receivers that got one from it, in order

mqVars == <<cmd, at, msqid, content, queues, sent, taken>>

Init ==
    /\ cmd \in [Processes -> Commands]
    /\ at = [p \in Processes |-> "none"]
    /\ msqid = [p \in Processes |-> 0]
    /\ content = [p \in Processes |-> "nothing"]
    /\ queues = <<>>
    /\ sent = <<>>
    /\ taken = <<>>

(* The queue that has the key; a removed one has none.                     *)
Current == {q \in DOMAIN queues : queues[q].alive}

Exit(p, code) == at' = [at EXCEPT ![p] = code]

(* Lines 31-55 and 98-101: an option or command that is not there.         *)
Start(p) ==
    /\ at[p] = "none"
    /\ IF cmd[p] = "other" THEN Exit(p, "-1") ELSE Exit(p, "msgget")
    /\ UNCHANGED <<cmd, msqid, content, queues, sent, taken>>

Create(p) ==
    /\ at[p] = "msgget" /\ cmd[p] = "create"
    /\ Exit(p, "0")
    /\ IF Current # {} THEN UNCHANGED <<queues, sent, taken>>
       ELSE /\ Len(queues) < MaxQueues
            /\ queues' = Append(queues, [messages |-> <<>>, alive |-> TRUE])
            /\ sent' = Append(sent, <<>>)
            /\ taken' = Append(taken, <<>>)
    /\ UNCHANGED <<cmd, msqid, content>>

(* msgget of the three others, and the test for a message after it.        *)
Msgget(p) ==
    /\ at[p] = "msgget" /\ cmd[p] # "create"
    /\ IF Current = {} THEN Exit(p, "-1") /\ UNCHANGED msqid
       ELSE /\ \E q \in Current : msqid' = [msqid EXCEPT ![p] = q]
            /\ CASE cmd[p] = "snd"       -> Exit(p, "msgsnd")
                 [] cmd[p] = "snd-empty" -> Exit(p, "-1")
                 [] cmd[p] = "rcv"       -> Exit(p, "msgrcv")
                 [] cmd[p] = "close"     -> Exit(p, "msgctl")
    /\ UNCHANGED <<cmd, content, queues, sent, taken>>

Queue(p) == queues[msqid[p]]

(* msgsnd waits for room; an error, of a removed queue, is not looked at.  *)
Msgsnd(p) ==
    /\ at[p] = "msgsnd"
    /\ Exit(p, "0")
    /\ IF ~Queue(p).alive THEN UNCHANGED <<queues, sent>>
       ELSE /\ Len(Queue(p).messages) < Capacity
            /\ queues' = [queues EXCEPT ![msqid[p]].messages = Append(@, p)]
            /\ sent' = [sent EXCEPT ![msqid[p]] = Append(@, p)]
    /\ UNCHANGED <<cmd, msqid, content, taken>>

(* Mutant: msgrcv takes the message that came last.                        *)
MsgrcvNewest(p) ==
    /\ at[p] = "msgrcv" /\ Queue(p).alive /\ Queue(p).messages # <<>>
    /\ Exit(p, "0")
    /\ content' = [content EXCEPT ![p] = Last(Queue(p).messages)]
    /\ queues' = [queues EXCEPT ![msqid[p]].messages = Front(@)]
    /\ taken' = [taken EXCEPT ![msqid[p]] = Append(@, p)]
    /\ UNCHANGED <<cmd, msqid, sent>>

(* msgrcv waits for a message of any type.  When the queue was removed it  *)
(* fails, and what is printed is a message that was never filled in.       *)
Msgrcv(p) ==
    /\ at[p] = "msgrcv"
    /\ Exit(p, "0")
    /\ IF ~Queue(p).alive
       THEN content' = [content EXCEPT ![p] = "garbage"] /\ UNCHANGED <<queues, taken>>
       ELSE /\ Queue(p).messages # <<>>
            /\ content' = [content EXCEPT ![p] = Head(Queue(p).messages)]
            /\ queues' = [queues EXCEPT ![msqid[p]].messages = Tail(@)]
            /\ taken' = [taken EXCEPT ![msqid[p]] = Append(@, p)]
    /\ UNCHANGED <<cmd, msqid, sent>>

(* IPC_RMID throws away the messages and wakes whoever waits; a second one *)
(* fails, and nobody looks.                                                *)
Close(p) ==
    /\ at[p] = "msgctl"
    /\ Exit(p, "0")
    /\ queues' = [queues EXCEPT ![msqid[p]] = [messages |-> <<>>, alive |-> FALSE]]
    /\ UNCHANGED <<cmd, msqid, content, sent, taken>>

Step(p) == Start(p) \/ Create(p) \/ Msgget(p) \/ Msgsnd(p) \/ Msgrcv(p) \/ Close(p)

Next == \E p \in Processes : Step(p)

Spec == Init /\ [][Next]_mqVars

-----------------------------------------------------------------------------
Gone(p, command) == cmd[p] = command /\ at[p] = "0"

RemovedUnder(p) == msqid[p] \in DOMAIN queues /\ ~Queue(p).alive

(* The messages of a queue are printed in the order they were sent, each by*)
(* one receiver at most.  A sender that returned 0 has sent, a receiver    *)
(* that did has printed a message, unless another process removed the queue*)
(* between its msgget and its call; the only messages that get lost are    *)
(* those in a queue that was removed (dd.c:63-97).                         *)
MessagesInOrder ==
    /\ \A q \in DOMAIN queues :
          LET printed == [n \in DOMAIN taken[q] |-> content[taken[q][n]]]
          IN  IF queues[q].alive THEN sent[q] = printed \o queues[q].messages
              ELSE IsPrefix(printed, sent[q])
    /\ \A p, r \in Processes :
          p # r /\ Gone(p, "rcv") /\ Gone(r, "rcv") /\ content[p] = content[r]
              => content[p] = "garbage"
    /\ \A p \in Processes :
          /\ Gone(p, "snd") =>
                \/ \E q \in DOMAIN sent : {r \in DOMAIN sent : Contains(sent[r], p)} = {q}
                \/ RemovedUnder(p)
          /\ Gone(p, "rcv") /\ content[p] = "garbage" => RemovedUnder(p)
          /\ RemovedUnder(p) =>
                \E c \in Processes : Gone(c, "close") /\ msqid[c] = msqid[p]

-----------------------------------------------------------------------------
(* The inductive invariant.                                                *)

TypeOK ==
    /\ cmd \in [Processes -> Commands]
    /\ at \in [Processes -> {"none", "msgget", "msgctl", "msgsnd", "msgrcv", "0", "-1"}]
    /\ msqid \in [Processes -> Nat]
    /\ content \in [Processes -> Processes \cup {"garbage", "nothing"}]
    /\ queues \in Seq([messages : Seq(Processes), alive : BOOLEAN])
    /\ sent \in Seq(Seq(Processes)) /\ Len(sent) = Len(queues)
    /\ taken \in Seq(Seq(Processes)) /\ Len(taken) = Len(queues)

(* What a process has from its msgget, and which call it is for.           *)
HeldInv ==
    \A p \in Processes :
        /\ at[p] \in {"none", "msgget"} => msqid[p] = 0
        /\ cmd[p] = "other" => at[p] \in {"none", "-1"}
        /\ at[p] = "msgsnd" => cmd[p] = "snd"
        /\ at[p] = "msgrcv" => cmd[p] = "rcv"
        /\ at[p] = "msgctl" => cmd[p] = "close"
        /\ msqid[p] \in 0 .. Len(queues)
        /\ \/ at[p] \in {"msgsnd", "msgrcv", "msgctl"}
           \/ at[p] = "0" /\ cmd[p] # "create"
           => msqid[p] # 0

(* What was sent and not taken is in the queue, until it is removed.       *)
Aligned(q) ==
    LET messages == queues[q].messages IN
    /\ Len(taken[q]) + Len(messages) <= Len(sent[q])
    /\ \A n \in DOMAIN messages : messages[n] = sent[q][Len(taken[q]) + n]
    /\ queues[q].alive => Len(taken[q]) + Len(messages) = Len(sent[q])

QueueInv ==
    \A q \in DOMAIN queues :
        /\ Aligned(q)
        /\ ~queues[q].alive => \E c \in Processes : Gone(c, "close") /\ msqid[c] = q

(* A process sends once, to the queue it has.                              *)
SentInv ==
    /\ \A q \in DOMAIN sent : \A n \in DOMAIN sent[q] :
          /\ Gone(sent[q][n], "snd") /\ msqid[sent[q][n]] = q
          /\ \A m \in DOMAIN sent[q] : sent[q][m] = sent[q][n] => m = n
    /\ \A p \in Processes :
          Gone(p, "snd") => Contains(sent[msqid[p]], p) \/ RemovedUnder(p)

(* A process takes once, and prints what was sent in that place.           *)
TakenInv ==
    /\ \A q \in DOMAIN taken : \A n \in DOMAIN taken[q] :
          /\ Gone(taken[q][n], "rcv") /\ msqid[taken[q][n]] = q
          /\ content[taken[q][n]] = sent[q][n]
          /\ \A m \in DOMAIN taken[q] : taken[q][m] = taken[q][n] => m = n
    /\ \A p \in Processes :
          Gone(p, "rcv") => \/ Contains(taken[msqid[p]], p)
                            \/ content[p] = "garbage" /\ RemovedUnder(p)

QueueInvariant == TypeOK /\ HeldInv /\ QueueInv /\ SentInv /\ TakenInv
=============================================================================
