---------------------------- MODULE FaProperties ----------------------------
(***************************************************************************)
(* The properties file of unp/src/common: an object reads lines of the form*)
(* key = value # comment into a map.                                       *)
(*                                                                         *)
(* A string is a sequence of blanks, "#", "=" and words; a word stands for *)
(* any run of other characters.  The file name an object keeps is never    *)
(* read and is left out.                                                   *)
(***************************************************************************)
EXTENDS Integers, Sequences, SequencesExt

CONSTANTS
    Files,      \* what a file may hold: sequences of lines [text, fits]
    Numerals,   \* the words that are numbers, and these numbers
    MaxOpens    \* bound: calls of open

VARIABLES
    mapLinevalue,
    loaded,     \* the files read since the last close
    opens

configVars == <<mapLinevalue, loaded, opens>>

Blank == " "

Blanks(s) == \A i \in DOMAIN s : s[i] = Blank

(* The string without the blanks at its ends.                              *)
trim(s) ==
    LET IsInk(x) == x # Blank
    IN  IF Blanks(s) THEN <<>>
        ELSE SubSeq(s, SelectInSeq(s, IsInk), SelectLastInSeq(s, IsInk))

(* What stands before the first c; all of s without one.                   *)
UpTo(s, c) ==
    IF Contains(s, c) THEN SubSeq(s, 1, SelectInSeq(s, LAMBDA x : x = c) - 1) ELSE s

Beyond(s, c) == SubSeq(s, SelectInSeq(s, LAMBDA x : x = c) + 1, Len(s))

(* Mutant: the comment is cut off after the key was.                       *)
parseLineToMapLate(map, text) ==
    LET line == trim(text)
    IN  IF ~Contains(line, "=") THEN map
        ELSE (trim(UpTo(line, "=")) :> trim(UpTo(Beyond(line, "="), "#"))) @@ map

(* A line that is only a comment, or has no "=", is passed over.  The      *)
(* later of two lines with the same key counts.                            *)
parseLineToMap(map, text) ==
    LET line == UpTo(trim(text), "#")
    IN  IF line = <<>> \/ ~Contains(line, "=") THEN map
        ELSE (trim(UpTo(line, "=")) :> trim(Beyond(line, "="))) @@ map

(* getline sets failbit at a line that does not fit sLineStr, and the loop *)
(* ends as it does at the end of the file: without an exception.           *)
LinesRead(file) ==
    LET long == SelectInSeq(file, LAMBDA line : ~line.fits)
    IN  IF long = 0 THEN file ELSE SubSeq(file, 1, long - 1)

InitConfig ==
    /\ mapLinevalue = <<>>
    /\ loaded = <<>>
    /\ opens = 0

(* The map is not cleared.                                                 *)
open(file) ==
    /\ opens < MaxOpens
    /\ opens' = opens + 1
    /\ mapLinevalue' = FoldLeft(LAMBDA map, line : parseLineToMap(map, line.text),
                                mapLinevalue, LinesRead(file))
    /\ loaded' = Append(loaded, file)

(* A file that cannot be opened: an exception, and the map as it was.      *)
openThrows ==
    /\ opens < MaxOpens
    /\ opens' = opens + 1
    /\ UNCHANGED <<mapLinevalue, loaded>>

close ==
    /\ mapLinevalue # <<>>
    /\ mapLinevalue' = <<>>
    /\ loaded' = <<>>
    /\ UNCHANGED opens

NextConfig == (\E file \in Files : open(file)) \/ openThrows \/ close

-----------------------------------------------------------------------------
(* The getters; without a default the caller gets an exception.            *)

getString(key, default) ==
    IF key \in DOMAIN mapLinevalue THEN mapLinevalue[key] ELSE default

atoi(s) ==
    IF s # <<>> /\ Head(s) \in DOMAIN Numerals THEN Numerals[Head(s)] ELSE 0

(* The default is formatted and read again.                                *)
getInt(key, default) ==
    atoi(getString(key, <<CHOOSE w \in DOMAIN Numerals : Numerals[w] = default>>))

-----------------------------------------------------------------------------
(* What a line means, by its form: blanks, a key, blanks, "=", blanks, a   *)
(* value, blanks, and perhaps a comment.                                   *)

IsTrimmed(s) == s = <<>> \/ (Head(s) # Blank /\ Last(s) # Blank)

Within(s, i, j) == SubSeq(s, i + 1, j)

Padded(s, word) ==
    \E i, j \in 0 .. Len(s) :
        /\ i <= j /\ Within(s, i, j) = word /\ IsTrimmed(word)
        /\ Blanks(Within(s, 0, i)) /\ Blanks(Within(s, j, Len(s)))

Assigns(text, key, value) ==
    \E e \in DOMAIN text :
        /\ text[e] = "=" /\ \A i \in 1 .. e - 1 : text[i] \notin {"=", "#"}
        /\ Padded(Within(text, 0, e - 1), key)
        /\ \E c \in e + 1 .. Len(text) + 1 :
              /\ \A i \in e + 1 .. c - 1 : text[i] # "#"
              /\ c <= Len(text) => text[c] = "#"
              /\ Padded(Within(text, e, c - 1), value)

(* While every line fits, the map holds what the lines opened since the    *)
(* last close say, the last line counting where two give a key, whatever   *)
(* blanks and comments stand in them; an object opened twice keeps the     *)
(* keys of the first file (FaProperties.cpp:36-39, 109-140).  Nothing is   *)
(* said of a file with a line that is too long: open should throw an       *)
(* exception (line 25), and does not.                                      *)
ConfigIsRight ==
    (\A f \in DOMAIN loaded : \A n \in DOMAIN loaded[f] : loaded[f][n].fits) =>
    LET lines == FlattenSeq(loaded)
        Trimmed == {s \in UNION {SubSeqs(line.text) : line \in ToSet(lines)} \cup {<<>>} :
                       IsTrimmed(s)}
        ValuesOf(n, key) == {value \in Trimmed : Assigns(lines[n].text, key, value)}
        Giving(key) == {n \in DOMAIN lines : ValuesOf(n, key) # {}}
    IN  \A key \in Trimmed \cup DOMAIN mapLinevalue :
           LET giving == Giving(key)
           IN  IF giving = {} THEN key \notin DOMAIN mapLinevalue
               ELSE /\ key \in DOMAIN mapLinevalue
                    /\ ValuesOf(Max(giving), key) = {mapLinevalue[key]}
=============================================================================
