--------------------------- MODULE TsdbLoaderProps ---------------------------
(* What TsdbLoader must satisfy and its inductive invariant.               *)
EXTENDS TsdbLoader

Counting == {w \in Workers : wpc[w] = "count"}

(* A point taken from the channel is in the hands of one worker, in the    *)
(* database or in a failed batch, and in one of these only: no worker      *)
(* posts another's point, or its own again (lines 35-48 and 46-59).        *)
OnePlace ==
    \A n \in 1 .. received :
        \/ n \in stored /\ n \notin lost /\ \A w \in Workers : n \notin arr[w]
        \/ n \in lost /\ n \notin stored /\ \A w \in Workers : n \notin arr[w]
        \/ /\ n \notin stored \cup lost
           /\ \E w \in Workers :
                 n \in arr[w] /\ \A v \in Workers \ {w} : n \notin arr[v]

(* The shared count is behind the batches posted, stored or not, by one    *)
(* batch for each worker between its post and its increment.               *)
CountIsPosted ==
    Count + BATCH * Cardinality(Counting) = Cardinality(stored \cup lost)

(* When main returns, at most TOTAL - THRESHOLD points were never posted,  *)
(* although main stops gen and the workers wherever they are (lines 26 and *)
(* 37).                                                                    *)
ExitIsLate ==
    exited => THRESHOLD <= Cardinality(stored) + Cardinality(lost)

(* When gen is done and every worker waits for more, all that is missing   *)
(* is the part batches, fewer than BATCH points in each worker.            *)
OnlyRemainders ==
    (/\ sent = TOTAL /\ received = sent
     /\ \A w \in Workers : wpc[w] = "receive")
        => Count + WORKERS * (BATCH - 1) >= TOTAL

Held == UNION {arr[w] : w \in Workers}

(* Nothing is left to send or to receive, and the part batches, which no   *)
(* worker ever posts, hold more points than main can do without.           *)
Starved ==
    /\ sent = TOTAL /\ received = sent
    /\ \A w \in Workers : wpc[w] = "receive"
    /\ Cardinality(Held) > TOTAL - THRESHOLD

(* main returns (line 26), whichever posts fail, unless the last points    *)
(* happen to be spread over the workers so that the count stops short of   *)
(* the threshold: there is no other way to poll for ever.                  *)
MainReturns == <>[](exited \/ Starved)

-----------------------------------------------------------------------------
(* The inductive invariant.                                                *)

BatchInv ==
    \A w \in Workers :
        /\ wpc[w] = "receive" => Cardinality(arr[w]) < BATCH
        /\ wpc[w] = "insert" => Cardinality(arr[w]) = BATCH
        /\ wpc[w] = "count" => arr[w] = {}

PlaceInv ==
    /\ \A w \in Workers : arr[w] \subseteq 1 .. received
    /\ stored \subseteq 1 .. received
    /\ lost \subseteq 1 .. received
    /\ OnePlace

LoaderInv ==
    /\ LoaderTypeOK
    /\ BatchInv
    /\ PlaceInv
    /\ CountIsPosted
    /\ exited => Count >= THRESHOLD
=============================================================================
