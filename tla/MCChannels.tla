------------------------------ MODULE MCChannels ------------------------------
(* TLC instances of ChannelManager.                                        *)
EXTENDS ChannelManager, TLC

CONSTANTS a, cli, t1, t2, t3, md

\* For channel a: a text in two chunks, a short one and a media message; and a
\* text for the internal channel.
MixChannelOf == (t1 :> a) @@ (t2 :> a) @@ (md :> a) @@ (t3 :> cli)
MixKindOf == (t1 :> "text") @@ (t2 :> "text") @@ (md :> "media") @@ (t3 :> "text")
MixChunksOf == (t1 :> 1) @@ (t2 :> 2) @@ (md :> 1) @@ (t3 :> 1)

\* Two short texts for channel a.
TextChannelOf == (t1 :> a) @@ (t2 :> a)
TextKindOf == (t1 :> "text") @@ (t2 :> "text")
TextChunksOf == (t1 :> 1) @@ (t2 :> 1)
===============================================================================
