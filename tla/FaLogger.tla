------------------------------ MODULE FaLogger ------------------------------
(***************************************************************************)
(* The logger of unp/src/common, with the properties file it is configured *)
(* from and the streams of the C library it writes to.                     *)
(*                                                                         *)
(* A message is its number, its level and its stream; the time and the     *)
(* place in a line of the log are left out.  A stream keeps what is written*)
(* until its buffer is full, fclose is called or the program returns.      *)
(***************************************************************************)
EXTENDS FaProperties

CONSTANTS
    LevelKey, FileKey,      \* the keys preName.log.level, preName.log.filename
    DefaultFile,            \* "./logs/default.log", as a string of the file
    Missing,                \* the names of files that fopen cannot open
    MaxInits, MaxMessages   \* bounds

Levels  == 0 .. 4           \* FAFATAL, FAERROR, FAWARN, FAINFO, FADEBUG
FADEBUG == 4

VARIABLES
    life,           \* "none", "made", "returned" or "crashed"
    m_nLogLevel,
    m_fileOut,      \* a stream's number, 0: NULL, -1: never assigned
    streams,        \* every stream fopen made: [file, buffer, open]
    disk,           \* each file's messages
    tried,          \* the file name of each init
    told            \* the messages the program logged, [n, level, stream]

loggerVars == <<life, m_nLogLevel, m_fileOut, streams, disk, tried, told>>

InitLogger ==
    /\ InitConfig
    /\ life = "none"
    /\ m_nLogLevel = FADEBUG
    /\ m_fileOut = -1
    /\ streams = <<>>
    /\ disk = <<>>
    /\ tried = <<>>
    /\ told = <<>>

(* FaLogger(): a level, and a pointer with any value.                      *)
Construct ==
    /\ life = "none"
    /\ life' = "made"
    /\ UNCHANGED <<m_nLogLevel, m_fileOut, streams, disk, tried, told>>

(* The other constructor is this call.  A stream the object had is not     *)
(* closed: nobody can reach it any more, and it keeps its buffer.          *)
init ==
    LET name == getString(FileKey, DefaultFile)
    IN  /\ life \in {"none", "made"}
        /\ Len(tried) < MaxInits
        /\ life' = "made"
        /\ tried' = Append(tried, name)
        /\ m_nLogLevel' = getInt(LevelKey, FADEBUG)
        /\ IF name \in Missing
           THEN m_fileOut' = 0 /\ UNCHANGED streams
           ELSE /\ m_fileOut' = Len(streams) + 1
                /\ streams' = Append(streams, [file |-> name, buffer |-> <<>>, open |-> TRUE])
        /\ UNCHANGED <<disk, told>>

HasStream == m_fileOut > 0

(* fclose or fprintf with a null or a wild pointer.                        *)
Crash == life' = "crashed" /\ UNCHANGED <<m_nLogLevel, m_fileOut, streams, disk, tried, told>>

Contents(file) == IF file \in DOMAIN disk THEN disk[file] ELSE <<>>

Written(s) == (streams[s].file :> Contents(streams[s].file) \o streams[s].buffer) @@ disk

(* The buffer of a stream is full.                                         *)
Flush(s) ==
    /\ life = "made"
    /\ streams[s].buffer # <<>>
    /\ disk' = Written(s)
    /\ streams' = [streams EXCEPT ![s].buffer = <<>>]
    /\ UNCHANGED <<life, m_nLogLevel, m_fileOut, tried, told>>

closeLogger ==
    /\ life = "made"
    /\ IF ~HasStream THEN Crash
       ELSE /\ disk' = Written(m_fileOut)
            /\ streams' = [streams EXCEPT ![m_fileOut].buffer = <<>>, ![m_fileOut].open = FALSE]
            /\ m_fileOut' = 0
            /\ UNCHANGED <<life, m_nLogLevel, tried, told>>

isEnableFor(logLevel) == logLevel >= m_nLogLevel

(* LOG_FATAL and its like ask before log does.                             *)
log(logLevel) ==
    /\ life = "made"
    /\ Len(told) < MaxMessages
    /\ LET message == [n |-> Len(told) + 1, level |-> logLevel, stream |-> m_fileOut]
       IN  CASE ~isEnableFor(logLevel) ->
                  /\ told' = Append(told, message)
                  /\ UNCHANGED <<life, m_nLogLevel, m_fileOut, streams, disk, tried>>
             [] isEnableFor(logLevel) /\ ~HasStream -> Crash
             [] OTHER ->
                  /\ told' = Append(told, message)
                  /\ streams' = [streams EXCEPT ![m_fileOut].buffer = Append(@, message)]
                  /\ UNCHANGED <<life, m_nLogLevel, m_fileOut, disk, tried>>

(* exit has written every buffer, in any order.                            *)
Return ==
    /\ life = "made"
    /\ \A s \in DOMAIN streams : streams[s].buffer = <<>>
    /\ life' = "returned"
    /\ UNCHANGED <<m_nLogLevel, m_fileOut, streams, disk, tried, told>>

NextLogger ==
    \/ NextConfig /\ life \in {"none", "made"} /\ UNCHANGED loggerVars
    \/ /\ \/ Construct \/ init \/ closeLogger \/ Return
          \/ \E logLevel \in Levels : log(logLevel)
          \/ \E s \in DOMAIN streams : Flush(s)
       /\ UNCHANGED configVars

-----------------------------------------------------------------------------
OnDisk(s) == SelectSeq(Contents(streams[s].file), LAMBDA m : m.stream = s)

From(s, least) == SelectSeq(told, LAMBDA m : m.stream = s /\ m.level >= least)

(* Whatever is configured, initialised again or closed in between, there   *)
(* is one level for the whole life of a stream, and every message from it  *)
(* on reaches the stream, once and in order: what is not in its file is in *)
(* its buffer, and nothing once the stream was closed or the program has   *)
(* returned.  So nothing is written to a stream that was closed            *)
(* (FaLogger.cpp:32-89).                                                   *)
NoMessageLost ==
    \A s \in DOMAIN streams :
        \E least \in 0 .. FADEBUG + 1 :
            /\ OnDisk(s) \o streams[s].buffer = From(s, least)
            /\ life = "returned" \/ ~streams[s].open => OnDisk(s) = From(s, least)

(* A file has its messages in the order they were logged, while no second  *)
(* stream to it was made.                                                  *)
FilesInOrder ==
    \A file \in DOMAIN disk :
        \/ \E s1, s2 \in DOMAIN streams :
              s1 # s2 /\ streams[s1].file = file /\ streams[s2].file = file
        \/ \A i, j \in DOMAIN disk[file] :
              i < j => disk[file][i].n < disk[file][j].n

(* The program crashes in log or close only when the object was never      *)
(* initialised, when the latest init could not open its file, or when the  *)
(* stream of the latest init was closed: an init whose file can be opened  *)
(* makes the object usable, whatever was done with it before.              *)
CrashIsMisuse ==
    life = "crashed" => \/ tried = <<>>
                        \/ Last(tried) \in Missing
                        \/ ~Last(streams).open

(* The three together: what was logged is in its file, once and in order,  *)
(* and a logger with a stream does not crash (FaLogger.cpp:32-89).         *)
LogIsRight == NoMessageLost /\ FilesInOrder /\ CrashIsMisuse
=============================================================================
