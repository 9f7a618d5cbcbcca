---------------------------- MODULE MCBootFlow ------------------------------
(* An instance of BootFlow: two partitions and the configurations that     *)
(* take every branch of diskboot() and dhcp_callback().                    *)
EXTENDS BootFlow

MkConf(k, r, n, f) ==
  [kernel |-> k, ramdisk |-> r, trynetboot |-> n, forcediskboot |-> f]
MkVolume(r, b) == [ext2 |-> TRUE, root |-> r, boot |-> b]

Plain      == MkConf("bzImage", "unset", FALSE, FALSE)
WithNet    == MkConf("bzImage", "present", TRUE, FALSE)
NoKernel   == MkConf("notBzImage", "unset", FALSE, FALSE)
NoRamdisk  == MkConf("bzImage", "missing", FALSE, FALSE)

MCVolumes ==
  { [ext2 |-> FALSE, root |-> NoConf, boot |-> NoConf],
    MkVolume(NoConf, NoConf), MkVolume(Plain, NoConf), MkVolume(WithNet, NoConf),
    MkVolume(NoKernel, WithNet), MkVolume(NoConf, NoRamdisk), MkVolume(NoConf, WithNet) }

MCNetConfs ==
  { Plain, NoKernel, MkConf("bzImage", "present", FALSE, FALSE),
    MkConf("bzImage", "present", FALSE, TRUE), MkConf("unset", "missing", FALSE, FALSE) }
=============================================================================
