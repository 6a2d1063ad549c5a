----------------------------- MODULE MCPrograms -----------------------------
(***************************************************************************)
(* Three programs somebody waits for: the bulk loaders, the time server    *)
(* with its clients, and the mutex program without spurious wakeups.       *)
(* `program' says which one runs, and the others stand still where they    *)
(* begin.                                                                  *)
(***************************************************************************)
EXTENDS ProducerConsumerProps, TsdbLoaderProps, Sequences

CONSTANTS
    Clients, Length, MayLeave, AcceptMayFail    \* the time server

VARIABLES
    program,
    spc, connfd, written, backlog, reader, wire, got, closed, peer

Tm == INSTANCE TimeServer WITH sent <- written, cpc <- reader

ASSUME Tm!TimeConstants

timeVars == <<spc, connfd, written, backlog, reader, wire, got, closed, peer>>
all == <<program, vars, loaderVars, timeVars>>

Loader(A) == program = "tsdb" /\ A /\ UNCHANGED <<program, vars, timeVars>>
Time(A)   == program = "time" /\ A /\ UNCHANGED <<program, vars, loaderVars>>
Mutex(A)  == program = "pc" /\ A /\ UNCHANGED <<program, loaderVars, timeVars>>

AllInit ==
    /\ program \in {"tsdb", "time", "pc"}
    /\ Init /\ InitLoader /\ Tm!Init

AllNext == Loader(NextLoader) \/ Time(Tm!Next) \/ Mutex(Next)

(* Goroutines, threads, the server and a client that waits in read are     *)
(* scheduled.                                                              *)
AllSpec ==
    /\ AllInit /\ [][AllNext]_all
    /\ WF_all(Loader(Gen))
    /\ \A w \in Workers : WF_all(Loader(Worker(w)))
    /\ WF_all(Loader(PollDone))
    /\ WF_all(Time(Tm!ServerStep))
    /\ \A c \in Clients : WF_all(Time(Tm!Read(c)))
    /\ \A p \in Producers : WF_all(Mutex(Produce(p)))
    /\ WF_all(Mutex(Consume))
    /\ WF_all(Mutex(Main))

-----------------------------------------------------------------------------
(* Loaders: main returns, or too many points stay in part batches.         *)
LoaderReturns == program = "tsdb" => MainReturns

(* Time server: a client that stays gets the whole time or nothing, and    *)
(* comes to its end whichever others leave.                                *)
TimeIsTold == Tm!TimeIsTold

(* Mutex program: ImplementsLog.  While another program runs the log       *)
(* stays empty.                                                            *)
MutexImplementsLog == Log!LSafe /\ (program = "pc" => Log!LFair)

(* Mutex program: every thread ends and main returns.                      *)
MutexTerminates == program = "pc" => Termination
=============================================================================
