---------------------------- MODULE MCBootService ----------------------------
(***************************************************************************)
(* Boot images for two U54s and what happens to them.                      *)
(***************************************************************************)
EXTENDS BootService

\* nb boot commands, nr requests of the payloads.
Image(chunks, entry, skipOpensbi, skipAutoboot, storageFails, nb, nr) ==
    [numChunks |-> chunks, entryPoint |-> entry, skipOpensbi |-> skipOpensbi,
     skipAutoboot |-> skipAutoboot, storageFails |-> storageFails,
     maxBoots |-> nb, maxRequests |-> nr]

\* SMP: U54_1 boots U54_2, which shares its entry point and has no chunks.
Smp(storageFails, nb, nr) ==
    Image(<<1, 0>>, <<1, 1>>, {}, {}, storageFails, nb, nr)

\* AMP: two boot sets, one hart each.
Amp(skipOpensbi, skipAutoboot, nr) ==
    Image(<<1, 1>>, <<1, 2>>, skipOpensbi, skipAutoboot, FALSE, 1, nr)

\* Only U54_1 has a payload.
Solo(storageFails, nb, nr) ==
    Image(<<1, 0>>, <<1, 0>>, {}, {}, storageFails, nb, nr)

\* One boot; reboot of an SMP domain; remoteproc start of a context without
\* OpenSBI; a second boot command in the middle of a boot, also one that finds
\* no image.
SafetyScenarios ==
    {Smp(FALSE, 1, 0), Smp(FALSE, 1, 1), Amp({2}, {2}, 1), Solo(FALSE, 2, 1), Solo(TRUE, 2, 0)}

\* One boot of every kind of image that covers all harts.
LiveScenarios == {Smp(FALSE, 1, 0), Amp({2}, {}, 0), Amp({}, {}, 0)}

FirstBoot == {Smp(FALSE, 1, 0)}
TwoReboots == {Amp({2}, {}, 2)}
OneReboot == {Smp(FALSE, 1, 1)}
=============================================================================
