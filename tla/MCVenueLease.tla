---------------------------- MODULE MCVenueLease ----------------------------
EXTENDS VenueLease, TLC

CONSTANTS r1, r2, linux, darwin, s1, s2

\* One platform served by two slots, and two platforms served by one each
OnePool == (linux :> <<s1, s2>>)
OneBox == (linux :> <<s1>>)
TwoBoxes == (linux :> <<s1>>) @@ (darwin :> <<s2>>)

\* Both runs for linux alone, the first for darwin too, both for both
LinuxOnly == [r \in {r1, r2} |-> {linux}]
OneWantsBoth == (r1 :> {linux, darwin}) @@ (r2 :> {linux})
BothWantBoth == [r \in {r1, r2} |-> {linux, darwin}]
=============================================================================
