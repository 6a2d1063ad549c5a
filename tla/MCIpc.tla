-------------------------------- MODULE MCIpc --------------------------------
(***************************************************************************)
(* The three programs of ipc/ and their processes: the producers and the   *)
(* consumer, the message queue and the shared memory.  `program' says which*)
(* one runs; the threads of the first stand still under the other two.     *)
(***************************************************************************)
EXTENDS ProducerConsumerProps, Sequences, TLC

CONSTANTS
    Processes, MaxQueues, Capacity,     \* the message queue
    Users, MAX_DATA, PAGE, MaxSegments, \* the shared memory
    Characters, Arguments, Stack

VARIABLES
    program,
    cmd, at, content,                                   \* shared names
    msqid, queues, sent, taken,
    shm_id, left, length, printed, segments, log

Mq  == INSTANCE MessageQueue
Shm == INSTANCE SharedMemory WITH Processes <- Users

ASSUME IpcConstants == Mq!QueueConstants /\ Shm!ShmConstants

mqOnly  == <<msqid, queues, sent, taken>>
shmOnly == <<shm_id, left, length, printed, segments, log>>
all == <<program, vars, cmd, at, content, mqOnly, shmOnly>>

-----------------------------------------------------------------------------
Off(v) == v = "off"

MqOff  == Off(msqid) /\ Off(queues) /\ Off(sent) /\ Off(taken)
ShmOff == /\ Off(shm_id) /\ Off(left) /\ Off(length)
          /\ Off(printed) /\ Off(segments) /\ Off(log)

AllInit ==
    /\ Init
    /\ \/ program = "mutex" /\ MqOff /\ ShmOff /\ Off(cmd) /\ Off(at) /\ Off(content)
       \/ program = "mqueue" /\ Mq!Init /\ ShmOff
       \/ program = "shm" /\ Shm!Init /\ MqOff

AllNext ==
    \/ program = "mutex" /\ Next /\ UNCHANGED <<program, cmd, at, content, mqOnly, shmOnly>>
    \/ program = "mqueue" /\ Mq!Next /\ UNCHANGED <<program, vars, shmOnly>>
    \/ program = "shm" /\ Shm!Next /\ UNCHANGED <<program, vars, mqOnly>>

AllSpec == AllInit /\ [][AllNext]_all

(* The users of the shared memory are among the processes of the queue.    *)
ProcessSymmetry == Permutations(Users)

(* The arguments TLC tries, the last one as long as MAX_DATA, and what may *)
(* stand behind it.                                                        *)
ThreeArguments == {<<>>, <<"a">>, <<"a", "b">>}
TwoStacks == {<<>>, <<"b">>}

-----------------------------------------------------------------------------
(* Message queue: what is sent is printed once and in order, or its queue  *)
(* was removed.                                                            *)
MessagesInOrder == program = "mqueue" => Mq!MessagesInOrder

(* Shared memory: a print runs no further than what was copied, and without*)
(* an overlap shows one content.                                           *)
PrintsAreWhole == program = "shm" => Shm!PrintsAreWhole
=============================================================================
