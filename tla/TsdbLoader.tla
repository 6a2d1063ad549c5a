----------------------------- MODULE TsdbLoader -----------------------------
(***************************************************************************)
(* The two bulk loaders, tsdb/influxdb_insert.go and                       *)
(* tsdb/opentsdb_insert.go, which differ only in the wire format.  gen     *)
(* sends TOTAL points into a buffered channel; WORKERS goroutines gather   *)
(* BATCH of them at a time, post them to the database and add BATCH to a   *)
(* shared count; main polls the count and returns, which ends every other  *)
(* goroutine, when the count reaches THRESHOLD.                            *)
(*                                                                         *)
(* Points are numbered in the order they are sent.  The channel is first   *)
(* in, first out, so it holds exactly the points received+1 .. sent.       *)
(***************************************************************************)
EXTENDS Integers, FiniteSets

CONSTANTS
    TOTAL,      \* points gen sends: 10,000,000
    WORKERS,    \* 50
    BATCH,      \* 100
    CHAN_CAP,   \* capacity of msgChan: 1,000,000
    THRESHOLD,  \* the count main waits for: 9,999,000
    MayFail     \* whether a post may fail

ASSUME LoaderConstants ==
    /\ TOTAL \in Nat /\ THRESHOLD \in Nat
    /\ WORKERS \in Nat \ {0}
    /\ BATCH \in Nat \ {0}
    /\ CHAN_CAP \in Nat \ {0}
    /\ MayFail \in BOOLEAN

Workers == 1 .. WORKERS
Points  == 1 .. TOTAL

VARIABLES
    sent,       \* points gen has sent
    received,   \* points the workers have received
    arr,        \* strArr or metricArr: what each worker has gathered
    wpc,        \* each worker: "receive", "insert" or "count"
    stored,     \* the points in the database
    lost,       \* the points of batches whose post failed
    Count,
    exited      \* main has returned

loaderVars == <<sent, received, arr, wpc, stored, lost, Count, exited>>

LoaderTypeOK ==
    /\ sent \in 0 .. TOTAL
    /\ received \in 0 .. sent
    /\ sent - received <= CHAN_CAP
    /\ arr \in [Workers -> SUBSET Points]
    /\ wpc \in [Workers -> {"receive", "insert", "count"}]
    /\ stored \subseteq Points
    /\ lost \subseteq Points
    /\ Count \in Nat
    /\ exited \in BOOLEAN

InitLoader ==
    /\ sent = 0 /\ received = 0
    /\ arr = [w \in Workers |-> {}]
    /\ wpc = [w \in Workers |-> "receive"]
    /\ stored = {} /\ lost = {}
    /\ Count = 0
    /\ exited = FALSE

-----------------------------------------------------------------------------
(* gen blocks while the channel is full.                                   *)
Gen ==
    /\ ~exited
    /\ sent < TOTAL
    /\ sent - received < CHAN_CAP
    /\ sent' = sent + 1
    /\ UNCHANGED <<received, arr, wpc, stored, lost, Count, exited>>

(* The worker takes the oldest point; a full batch goes to insertBatch.    *)
Receive(w) ==
    /\ ~exited
    /\ wpc[w] = "receive"
    /\ received < sent
    /\ received' = received + 1
    /\ arr' = [arr EXCEPT ![w] = @ \cup {received + 1}]
    /\ wpc' = [wpc EXCEPT ![w] =
                  IF Cardinality(arr'[w]) = BATCH THEN "insert" ELSE "receive"]
    /\ UNCHANGED <<sent, stored, lost, Count, exited>>

(* Mutant: the slice is not made anew after the post.                      *)
PostedKept(w) ==
    /\ ~exited
    /\ wpc[w] = "insert"
    /\ wpc' = [wpc EXCEPT ![w] = "count"]
    /\ UNCHANGED <<sent, received, arr, Count, exited>>

(* insertBatch only prints an error: a worker goes on alike.               *)
Posted(w) ==
    /\ ~exited
    /\ wpc[w] = "insert"
    /\ wpc' = [wpc EXCEPT ![w] = "count"]
    /\ arr' = [arr EXCEPT ![w] = {}]
    /\ UNCHANGED <<sent, received, Count, exited>>

InsertBatch(w) ==
    /\ Posted(w)
    /\ stored' = stored \cup arr[w]
    /\ UNCHANGED lost

(* Mutant: a failed batch is not counted.                                  *)
InsertFailsUncounted(w) ==
    /\ MayFail
    /\ ~exited
    /\ wpc[w] = "insert"
    /\ wpc' = [wpc EXCEPT ![w] = "receive"]
    /\ arr' = [arr EXCEPT ![w] = {}]
    /\ lost' = lost \cup arr[w]
    /\ UNCHANGED <<sent, received, stored, Count, exited>>

InsertFails(w) ==
    /\ MayFail
    /\ Posted(w)
    /\ lost' = lost \cup arr[w]
    /\ UNCHANGED stored

(* Mutant: a batch counts as one.                                          *)
AddOne(w) ==
    /\ ~exited
    /\ wpc[w] = "count"
    /\ wpc' = [wpc EXCEPT ![w] = "receive"]
    /\ Count' = Count + 1
    /\ UNCHANGED <<sent, received, arr, stored, lost, exited>>

AddCount(w) ==
    /\ ~exited
    /\ wpc[w] = "count"
    /\ wpc' = [wpc EXCEPT ![w] = "receive"]
    /\ Count' = Count + BATCH
    /\ UNCHANGED <<sent, received, arr, stored, lost, exited>>

Worker(w) == Receive(w) \/ InsertBatch(w) \/ InsertFails(w) \/ AddCount(w)

(* A poll that finds the count too small changes nothing.                  *)
PollDone ==
    /\ ~exited
    /\ Count >= THRESHOLD
    /\ exited' = TRUE
    /\ UNCHANGED <<sent, received, arr, wpc, stored, lost, Count>>

NextLoader ==
    \/ Gen
    \/ \E w \in Workers : Worker(w)
    \/ PollDone

(* Goroutines are scheduled fairly, and the database answers or refuses    *)
(* every post: the client of httplib is given no other end.                *)
LoaderFairness ==
    /\ WF_loaderVars(Gen)
    /\ \A w \in Workers : WF_loaderVars(Worker(w))
    /\ WF_loaderVars(PollDone)

LoaderSpec == InitLoader /\ [][NextLoader]_loaderVars

FairLoaderSpec == LoaderSpec /\ LoaderFairness
=============================================================================
