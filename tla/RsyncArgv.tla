------------------------------ MODULE RsyncArgv ------------------------------
(***************************************************************************)
(* The rsync command-option builder of lib/transfer/rsync/options.go:      *)
(* CommandOptions.AsRsyncCommandOptions with filterRsyncInfoOptions and    *)
(* filterRsyncExtraOptions.  It is a pure function, written here as        *)
(* operators with the contract the spec states for it; RsyncOptions checks *)
(* the one against the other on every command an option list builds.      *)
(*                                                                         *)
(* Strings the regular expressions look at (the --info values and the      *)
(* extra options) are sequences of character classes: "A" an upper-case    *)
(* letter, "a" a lower-case letter, "0" a digit, "-" a hyphen, " " a      *)
(* space.  An argv entry is a sequence of strings; fmt.Sprintf and         *)
(* strings.Join are modelled by what they produce.                         *)
(***************************************************************************)
EXTENDS Naturals, Sequences, SequencesExt

Chars == {"A", "a", "0", "-", " "}

(* CommandOptions: the boolean fields set, BwLimit (a nil pointer or a     *)
(* value), LogFile ("" or a path), Info and Extras.                        *)
BoolFields == {"Recursive", "SymLinks", "Permissions", "ModTimes",
               "DeviceFiles", "SpecialFiles", "Groups", "Owners",
               "HardLinks", "Delete", "Partial", "HumanReadable"}

\* The fixed flags, in the order AsRsyncCommandOptions appends them.
FlagOrder == <<"Recursive", "SymLinks", "Permissions", "DeviceFiles",
               "SpecialFiles", "ModTimes", "Owners", "Groups", "HardLinks",
               "Delete", "Partial">>
OptName == [Recursive |-> "--recursive", SymLinks |-> "--links",
            Permissions |-> "--perms", ModTimes |-> "--times",
            DeviceFiles |-> "--devices", SpecialFiles |-> "--specials",
            Owners |-> "--owner", Groups |-> "--group",
            HardLinks |-> "--hard-links", Partial |-> "--partial",
            Delete |-> "--delete", HumanReadable |-> "--human-readable"]

-----------------------------------------------------------------------------
(* regexp.MatchString, as the automaton that decides it: a set of         *)
(* transitions <<from, class, to>> from state 1, and the accepting states. *)
RECURSIVE Run(_, _, _, _)
Run(delta, accept, q, s) ==
    IF s = <<>> THEN q \in accept
    ELSE \E t \in delta : t[1] = q /\ t[2] = Head(s) /\ Run(delta, accept, t[3], Tail(s))

\* Mutant of InfoDelta: the pattern without its optional digit, `^[A-Z]+$`.
InfoDeltaNoDigit == {<<1, "A", 2>>, <<2, "A", 2>>}

\* `^[A-Z]+\d?$`: letters (state 2), then at most one digit (state 3).
InfoDelta == {<<1, "A", 2>>, <<2, "A", 2>>, <<2, "0", 3>>}
InfoAccept == {2, 3}

\* `^\-{1,2}([a-z]+\-)?[a-z]+$`: one or two hyphens (2, 3), letters (4),
\* optionally a hyphen (5) and more letters (6).
ExtraDelta == {<<1, "-", 2>>, <<2, "-", 3>>, <<2, "a", 4>>, <<3, "a", 4>>,
               <<4, "a", 4>>, <<4, "-", 5>>, <<5, "a", 6>>, <<6, "a", 6>>}
ExtraAccept == {4, 6}

InfoMatch(w) == Run(InfoDelta, InfoAccept, 1, w)
ExtraMatch(w) == Run(ExtraDelta, ExtraAccept, 1, w)

\* strings.TrimSpace, applied to an --info value after it matched.
RECURSIVE TrimSpace(_)
TrimSpace(w) ==
    IF w # <<>> /\ Head(w) = " " THEN TrimSpace(Tail(w))
    ELSE IF w # <<>> /\ Last(w) = " " THEN TrimSpace(Front(w))
    ELSE w

(* errorsutil.NewAggregate drops nil errors and is nil when none is left.  *)
(* An error is the set of values it names; an aggregate the sequence of   *)
(* its errors, the empty sequence being nil.                               *)
NewAggregate(errs) == SelectSeq(errs, LAMBDA e : e # {})

\* filterRsyncInfoOptions / filterRsyncExtraOptions: the values that match,
\* in order, and one error per value that does not.
FilterInfo(opts) ==
    <<[i \in 1..Len(SelectSeq(opts, InfoMatch)) |->
          TrimSpace(SelectSeq(opts, InfoMatch)[i])],
      NewAggregate([i \in 1..Len(SelectSeq(opts, LAMBDA w : ~InfoMatch(w))) |->
          {SelectSeq(opts, LAMBDA w : ~InfoMatch(w))[i]}])>>
FilterExtras(opts) ==
    <<SelectSeq(opts, ExtraMatch),
      NewAggregate([i \in 1..Len(SelectSeq(opts, LAMBDA w : ~ExtraMatch(w))) |->
          {SelectSeq(opts, LAMBDA w : ~ExtraMatch(w))[i]}])>>

\* An aggregate seen as one error of the outer aggregate: the set of values
\* it names, {} when it is nil.
AsError(agg) == UNION Range(agg)

\* strconv-style decimal digits of a positive integer (fmt's %d).
Digit == <<"0", "1", "2", "3", "4", "5", "6", "7", "8", "9">>
RECURSIVE Decimal(_)
Decimal(n) == IF n < 10 THEN <<Digit[n + 1]>>
              ELSE Decimal(n \div 10) \o <<Digit[(n % 10) + 1]>>

\* strings.Join(ws, sep).
Join(ws, sep) == FlattenSeq([i \in 1..Len(ws) |-> IF i = 1 THEN ws[i] ELSE <<sep>> \o ws[i]])

BwError == {<<"bwlimit">>}

(* AsRsyncCommandOptions: <<argv, aggregate error>>.                       *)
AsRsyncCommandOptions(c) ==
    LET plain == [i \in 1..Len(SelectSeq(FlagOrder, LAMBDA f : f \in c.on)) |->
                    <<OptName[SelectSeq(FlagOrder, LAMBDA f : f \in c.on)[i]]>>]
        bwOk == c.hasBw /\ c.bw > 0
        bw == IF bwOk THEN <<<<"--bwlimit=">> \o Decimal(c.bw)>> ELSE <<>>
        hr == IF "HumanReadable" \in c.on THEN <<<<"--human-readable">>>> ELSE <<>>
        log == IF c.log # "" THEN <<<<"--log-file=", c.log>>>> ELSE <<>>
        fi == FilterInfo(c.info)
        info == IF Len(c.info) > 0 THEN <<<<"--info=">> \o Join(fi[1], ",")>> ELSE <<>>
        fe == FilterExtras(c.extras)
        extras == IF Len(c.extras) > 0 THEN fe[1] ELSE <<>>
        errs == (IF c.hasBw /\ ~bwOk THEN <<BwError>> ELSE <<>>)
                \o (IF Len(c.info) > 0 THEN <<AsError(fi[2])>> ELSE <<>>)
                \o (IF Len(c.extras) > 0 THEN <<AsError(fe[2])>> ELSE <<>>)
    IN <<plain \o bw \o hr \o log \o info \o extras, NewAggregate(errs)>>

\* The zero value, CommandOptions{}.
NoCommand == [on |-> {}, hasBw |-> FALSE, bw |-> 0, log |-> "",
              info |-> <<>>, extras |-> <<>>]

-----------------------------------------------------------------------------
(* The contract of the spec (sections 4.3 and 6), stated without the      *)
(* automata: the patterns as sets of words, and the flags as a set.        *)
Run1(c, n) == [i \in 1..n |-> c]
InfoPattern(w) ==
    \E n \in 1..Len(w) : w \in {Run1("A", n), Run1("A", n) \o <<"0">>}
ExtraPattern(w) ==
    \E h \in 1..2, m \in 0..Len(w), k \in 1..Len(w) :
        w = Run1("-", h) \o (IF m = 0 THEN <<>> ELSE Run1("a", m) \o <<"-">>)
              \o Run1("a", k)

ContractFlags(c) ==
    {<<OptName[f]>> : f \in c.on}
    \cup (IF c.hasBw /\ c.bw > 0 THEN {<<"--bwlimit=">> \o Decimal(c.bw)} ELSE {})
    \cup (IF c.log # "" THEN {<<"--log-file=", c.log>>} ELSE {})
    \cup (IF c.info # <<>>
          THEN {<<"--info=">> \o Join(SelectSeq(c.info, InfoPattern), ",")} ELSE {})
    \cup {w \in Range(c.extras) : ExtraPattern(w)}

=============================================================================
