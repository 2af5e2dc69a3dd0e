--------------------------- MODULE MCRsyncOptions ---------------------------
(* Option lists for TransferOptions.Apply.                                 *)
EXTENDS RsyncOptions

CONSTANTS m1, m2, v1

\* Every TransferOption type of options.go.
AllKinds == {"ArchiveFiles", "PreserveOwnership", "StandardProgress",
             "DeleteDestination", "HardLinks", "Partial",
             "SourcePodSpecMutation", "DestinationPodSpecMutation",
             "SourceContainerMutation", "DestinationContainerMutation",
             "SourceMetaObjectMutation", "DestinationMetaObjectMutation",
             "Username", "Password"}

\* The container mutation options, alone.
ContainerKinds == {"SourceContainerMutation", "DestinationContainerMutation"}

\* The pod spec mutation options, alone.
PodKinds == {"SourcePodSpecMutation", "DestinationPodSpecMutation"}
====
