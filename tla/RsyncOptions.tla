---------------------------- MODULE RsyncOptions ----------------------------
(***************************************************************************)
(* TransferOptions.Apply (lib/transfer/rsync/options.go): a caller's list  *)
(* of TransferOption values applied, in order, to the zero TransferOptions *)
(* that NewRsyncTransferServer* and NewRsyncTransferClient* start from.   *)
(* Each step is one option's ApplyTo; none of them returns an error, so    *)
(* Apply's aggregate is always nil.                                        *)
(*                                                                         *)
(* The four mutation lists are Go slices: an array, a length and a         *)
(* capacity.  append writes in place when the capacity allows and          *)
(* otherwise copies into a new array, so two slices can share an array.    *)
(* Backing arrays live in a heap; the array made by the n-th option gets   *)
(* id n.  The elements (meta.PodSpecMutation, meta.ContainerMutation) are  *)
(* interfaces, two words each, for which the runtime's growslice doubles   *)
(* the capacity: 1, 2, 4, 8.                                               *)
(***************************************************************************)
EXTENDS Naturals, Sequences, SequencesExt

CONSTANTS
    Mutations,  \* pod spec and container mutations (model values)
    Values,     \* ObjectMeta mutations, user names, passwords (model values)
    Kinds,      \* the TransferOption types the caller's list may contain
    MaxOpts     \* length of the caller's list

VARIABLES
    opts,     \* the fields of TransferOptions other than the mutation lists
    slices,   \* [SliceFields -> the slice header: array, len, cap]
    heap,     \* [array ids -> the backing array's elements]
    applied,  \* [SliceFields -> the mutations the caller gave for that field]
    n         \* options applied so far

vars == <<opts, slices, heap, applied, n>>

\* The builder of the command options and its contract.
Argv == INSTANCE RsyncArgv

NoCmd == Argv!NoCommand
NoMut == "nomut"
NoValue == "novalue"

SliceFields == {"SourcePodMutations", "DestinationPodMutations",
                "SourceContainerMutations", "DestContainerMutations"}
MaxCap == 2 * MaxOpts
ArrIds == 1..MaxOpts
NilSlice == [arr |-> 0, len |-> 0, cap |-> 0]

\* The elements a slice header shows.
View(f) == [i \in 1..slices[f].len |-> heap[slices[f].arr][i]]

GrowCap(c) == IF c = 0 THEN 1 ELSE 2 * c

(* append(s, m), assigned to field f: in place if the capacity allows,     *)
(* else into array n + 1 holding a copy of s's elements and m.             *)
GoAppend(f, s, m) ==
    IF s.len < s.cap
    THEN /\ slices' = [slices EXCEPT ![f] = [s EXCEPT !.len = @ + 1]]
         /\ heap' = [heap EXCEPT ![s.arr][s.len + 1] = m]
    ELSE /\ slices' = [slices EXCEPT ![f] = [arr |-> n + 1, len |-> s.len + 1,
                                             cap |-> GrowCap(s.cap)]]
         /\ heap' = [heap EXCEPT ![n + 1] =
                       [i \in 1..MaxCap |-> IF i <= s.len THEN heap[s.arr][i]
                                            ELSE IF i = s.len + 1 THEN m
                                            ELSE NoMut]]

Init ==
    /\ opts = [cmd |-> NoCmd, SourcePodMeta |-> NoValue,
               DestinationPodMeta |-> NoValue, username |-> NoValue,
               password |-> NoValue]
    /\ slices = [f \in SliceFields |-> NilSlice]
    /\ heap = [a \in ArrIds |-> [i \in 1..MaxCap |-> NoMut]]
    /\ applied = [f \in SliceFields |-> <<>>]
    /\ n = 0

\* The loop of Apply takes the next option of the list.
Take(kind) == kind \in Kinds /\ n < MaxOpts /\ n' = n + 1

SetOn(fields, b) ==
    opts' = [opts EXCEPT !.cmd.on = IF b THEN @ \cup fields ELSE @ \ fields]

-----------------------------------------------------------------------------
(* The ApplyTo methods.                                                    *)

ArchiveFiles(b) ==
    /\ Take("ArchiveFiles")
    /\ SetOn({"Recursive", "SymLinks", "Permissions", "ModTimes", "Groups",
              "Owners", "DeviceFiles", "SpecialFiles"}, b)
    /\ UNCHANGED <<slices, heap, applied>>

PreserveOwnership(b) ==
    /\ Take("PreserveOwnership")
    /\ SetOn({"Owners", "Groups"}, b)
    /\ UNCHANGED <<slices, heap, applied>>

\* The seven --info values COPY2 ... STATS2: capitals and one digit.
Caps(k) == [i \in 1..k |-> "A"] \o <<"0">>
StandardInfo == <<Caps(4), Caps(3), Caps(6), Caps(4), Caps(5), Caps(8), Caps(5)>>

\* The receiver's value is not read: StandardProgress(false) sets them too.
StandardProgress(b) ==
    /\ Take("StandardProgress")
    /\ opts' = [opts EXCEPT !.cmd.info = StandardInfo,
                            !.cmd.on = @ \cup {"HumanReadable"},
                            !.cmd.log = "/dev/stdout"]
    /\ UNCHANGED <<slices, heap, applied>>

DeleteDestination(b) ==
    /\ Take("DeleteDestination") /\ SetOn({"Delete"}, b)
    /\ UNCHANGED <<slices, heap, applied>>

HardLinks(b) ==
    /\ Take("HardLinks") /\ SetOn({"HardLinks"}, b)
    /\ UNCHANGED <<slices, heap, applied>>

Partial(b) ==
    /\ Take("Partial") /\ SetOn({"Partial"}, b)
    /\ UNCHANGED <<slices, heap, applied>>

\* The caller means m for field f.
Meant(f, m) == applied' = [applied EXCEPT ![f] = Append(@, m)]

SourcePodSpecMutation(m) ==
    /\ Take("SourcePodSpecMutation")
    /\ GoAppend("SourcePodMutations", slices["SourcePodMutations"], m)
    /\ Meant("SourcePodMutations", m)
    /\ UNCHANGED opts

\* opts.DestinationPodMutations = append(opts.SourcePodMutations, ...)
DestinationPodSpecMutation(m) ==
    /\ Take("DestinationPodSpecMutation")
    /\ GoAppend("DestinationPodMutations", slices["SourcePodMutations"], m)
    /\ Meant("DestinationPodMutations", m)
    /\ UNCHANGED opts

SourceContainerMutation(m) ==
    /\ Take("SourceContainerMutation")
    /\ GoAppend("SourceContainerMutations", slices["SourceContainerMutations"], m)
    /\ Meant("SourceContainerMutations", m)
    /\ UNCHANGED opts

\* opts.DestContainerMutations = append(opts.SourceContainerMutations, ...)
DestinationContainerMutation(m) ==
    /\ Take("DestinationContainerMutation")
    /\ GoAppend("DestContainerMutations", slices["SourceContainerMutations"], m)
    /\ Meant("DestContainerMutations", m)
    /\ UNCHANGED opts

\* The meta mutations, Username and Password replace a field.
SetField(kind, field, v) ==
    /\ Take(kind)
    /\ opts' = [opts EXCEPT ![field] = v]
    /\ UNCHANGED <<slices, heap, applied>>

SourceMetaObjectMutation(v) == SetField("SourceMetaObjectMutation", "SourcePodMeta", v)
DestinationMetaObjectMutation(v) ==
    SetField("DestinationMetaObjectMutation", "DestinationPodMeta", v)
Username(v) == SetField("Username", "username", v)
Password(v) == SetField("Password", "password", v)

-----------------------------------------------------------------------------
Next ==
    \/ \E b \in BOOLEAN :
          \/ ArchiveFiles(b) \/ PreserveOwnership(b) \/ StandardProgress(b)
          \/ DeleteDestination(b) \/ HardLinks(b) \/ Partial(b)
    \/ \E m \in Mutations :
          \/ SourcePodSpecMutation(m) \/ DestinationPodSpecMutation(m)
          \/ SourceContainerMutation(m) \/ DestinationContainerMutation(m)
    \/ \E v \in Values :
          \/ SourceMetaObjectMutation(v) \/ DestinationMetaObjectMutation(v)
          \/ Username(v) \/ Password(v)

\* Apply returns after the last option of the list.
Spec == Init /\ [][Next]_vars

-----------------------------------------------------------------------------
(* Properties.                                                             *)

(* Every option list yields a command that validates, and whose argv     *)
(* holds each flag the options turned on, once, and nothing else (the      *)
(* spec's contract for AsRsyncCommandOptions).  createRsyncClient returns  *)
(* the builder's error and then creates no pod, so the presets (the        *)
(* --info values of StandardProgress) must pass the builder's own regular  *)
(* expressions, and a preset turning a field off must drop its flag.       *)
CommandValidates ==
    LET r == Argv!AsRsyncCommandOptions(opts.cmd)
    IN /\ r[2] = <<>>
       /\ Range(r[1]) = Argv!ContractFlags(opts.cmd)
       /\ Len(r[1]) = Cardinality(Range(r[1]))

(* The destination pod and container get exactly the destination          *)
(* mutations the caller gave (applied by createRsyncServer).              *)
DestinationMutationsKept ==
    \A f \in {"DestinationPodMutations", "DestContainerMutations"} :
        View(f) = applied[f]

=============================================================================
