-------------------------------- MODULE Ports --------------------------------
(***************************************************************************)
(* The UDP ports of database.js: each broadcast sends a channel's video    *)
(* and keys to two ports per provider, and a viewer listens on the two of  *)
(* its channel and provider.                                               *)
(***************************************************************************)
EXTENDS Naturals

\* Mutant: two ports too few per channel.
NarrowVideoPort(channelId, serverId) == 10000 + channelId * 4 + serverId * 2

getVideoPortById(channelId, serverId) == 10000 + channelId * 6 + serverId * 2

getKeyPortById(channelId, serverId) == 10000 + channelId * 6 + serverId * 2 + 1

StreamPorts(channelId, serverId) ==
    {getVideoPortById(channelId, serverId), getKeyPortById(channelId, serverId)}

=============================================================================
