----------------------------- MODULE MCProviders -----------------------------
(***************************************************************************)
(* The provider contract and the OBMM provider behind it, one per scene;   *)
(* the scene is chosen in the initial state and never changes, and the     *)
(* part of the other scenes stands still.                                  *)
(*   owners    channels to two instances of a provider that hand out the   *)
(*             same handles, refuse, answer wrongly and go down            *)
(*   contents  a channel whose buffers change under transfers and ranges   *)
(*   mapping   two OBMM nodes with two windows each, mmap may fail         *)
(*   unimport  the same with imports the kernel may refuse to take away    *)
(*   visible   a cached and an uncached window, caches fetch and evict     *)
(***************************************************************************)
EXTENDS ProviderChannel, TLC

CONSTANTS a, b    \* the OBMM nodes

VARIABLES
    scene,
    created, regions, mappings, imports, verified, closed, memory, cache, writes, published,
    visible

obmmVars == <<created, regions, mappings, imports, verified, closed, memory, cache, writes,
              published, visible>>
providersVars == <<scene, vars, obmmVars>>

NodesSym == Permutations({a, b})

-----------------------------------------------------------------------------
(* Channels.                                                               *)

\* Two instances of one provider, and one that lacks an operation.
Several == {"tcp0", "tcp1", "broken"}
NameOf == [p \in Several |-> "tcp"]
CapsOf == [p \in Several |-> {"region", "transfer", "mapping"}]
AllOps == {"probe", "register_region", "deregister_region", "submit_transfer", "poll_completion",
           "map_remote_region", "unmap_remote_region", "publish_range", "invalidate_range",
           "wait_range_visible"}
OpsOf == [p \in Several |-> IF p = "broken" THEN AllOps \ {"unmap_remote_region"} ELSE AllOps]
OnlyOne == [p \in Several |-> IF p = "tcp0" THEN AllOps ELSE {}]

\* A whole buffer, its second half, and a range whose end wraps around.
SomeRanges == {[off |-> 0, len |-> 4], [off |-> 2, len |-> 2], [off |-> 6, len |-> 3]}

\* The descriptor of a region of four bytes as it is encoded; it arrives whole,
\* without its last byte, and from a later version.
Exported == [name |-> "tcp", nameLen |-> 3, descLen |-> 2, len |-> 4]
Frame == [magic |-> "MSRP", version |-> 1, nameLen |-> 3, descLen |-> 2, reserved |-> 0, len |-> 4,
          kind |-> "host", name |-> "tcp", total |-> 37]
SomeFrames == {Frame, [Frame EXCEPT !.total = @ - 1], [Frame EXCEPT !.version = 2]}

\* The scene "owners" is ProviderChannel itself, its constants given by the cfg
\* file; in "contents" one provider can be registered.
Contents == INSTANCE ProviderChannel WITH
    MaxProviders <- 1, Sums <- {1, 2}, MaxId <- 2, Ops <- OnlyOne,
    Ranges <- {[off |-> 0, len |-> 4], [off |-> 2, len |-> 2]}

ASSUME Frame = Encode(Exported)

-----------------------------------------------------------------------------
(* OBMM.                                                                   *)

Mapping == INSTANCE ObmmProvider WITH
    Nodes <- {a, b}, MaxMappings <- 2, ImportBytes <- 1, Sizes <- {1}, Uncached <- {1, 2},
    ForceOsync <- TRUE, Required <- 1, CanaryAgain <- TRUE, Faults <- {"mmap"}, RegionBound <- 3,
    WriteBound <- 0

Unimport == INSTANCE ObmmProvider WITH
    Nodes <- {a, b}, MaxMappings <- 2, ImportBytes <- 1, Sizes <- {1}, Uncached <- {1, 2},
    ForceOsync <- TRUE, Required <- 1, CanaryAgain <- TRUE, Faults <- {"unimport"}, RegionBound <- 2,
    WriteBound <- 0

Visible == INSTANCE ObmmProvider WITH
    Nodes <- {a, b}, MaxMappings <- 2, ImportBytes <- 1, Sizes <- {1}, Uncached <- {2},
    ForceOsync <- FALSE, Required <- 1, CanaryAgain <- FALSE, Faults <- {}, RegionBound <- 2,
    WriteBound <- 1

ASSUME Mapping!ObmmAssumption /\ Unimport!ObmmAssumption /\ Visible!ObmmAssumption

-----------------------------------------------------------------------------

ProvidersInit ==
    \/ scene = "owners" /\ Init /\ Visible!Init
    \/ scene = "contents" /\ Contents!Init /\ Visible!Init
    \/ scene = "mapping" /\ Init /\ Mapping!Init
    \/ scene = "unimport" /\ Init /\ Unimport!Init
    \/ scene = "visible" /\ Init /\ Visible!Init

ChannelNext ==
    \/ scene = "owners" /\ Next
    \/ scene = "contents" /\ Contents!Next
ObmmNext ==
    \/ scene = "mapping" /\ Mapping!Next
    \/ scene = "unimport" /\ Unimport!Next
    \/ scene = "visible" /\ Visible!Next

ProvidersNext ==
    /\ \/ ChannelNext /\ UNCHANGED obmmVars
       \/ ObmmNext /\ UNCHANGED vars
    /\ scene' = scene

ProvidersSpec == ProvidersInit /\ [][ProvidersNext]_providersVars

-----------------------------------------------------------------------------

\* An OBMM endpoint keeps its books: no import is lost, none is reused too
\* early, imports of a node never overlap, no local mapping outlives its region,
\* and the endpoint is ready only after its peer has shown it a region (see
\* ObmmProvider!ImportsAccounted, WindowsDisjoint, LocalMappingsLive,
\* ReadyHasPeers).  With it the types of the channel and what it decodes (see
\* ProviderChannel!TypeOK, DecodedIsWhole).
ImportsAccounted ==
    /\ scene = "owners" => TypeOK /\ DecodedIsWhole
    /\ scene = "mapping" => /\ Mapping!TypeOK /\ Mapping!ImportsAccounted
                            /\ Mapping!WindowsDisjoint /\ Mapping!LocalMappingsLive
                            /\ Mapping!ReadyHasPeers
    /\ scene = "unimport" => Unimport!ImportsAccounted /\ Unimport!WindowsDisjoint

\* What is published is in memory, whatever the caches do (see
\* ObmmProvider!PublishedIsInMemory).
PublishedIsInMemory == scene = "visible" => Visible!PublishedIsInMemory
=============================================================================
