--------------------------- MODULE MCComputerStore ---------------------------
(***************************************************************************)
(* Instances of ComputerStore for TLC.                                     *)
(***************************************************************************)
EXTENDS ComputerStore, TLC

CONSTANTS r1, r2, sda

\* Two systems that differ as a version does.
Old == [major |-> 1, minor |-> 0]
New2 == [major |-> 1, minor |-> 2]

\* /proc/mounts with no disk, with a disk half full, full, or mounted twice.
Mount(dev, free, at) == [dev |-> dev, info |-> [free |-> free, total |-> 2, mount |-> at]]
NoDisk == <<Mount("proc", 0, "/proc")>>
Half   == <<Mount(sda, 1, "/")>>
Full   == <<Mount(sda, 0, "/")>>
Twice  == <<Mount(sda, 1, "/"), Mount(sda, 1, "/home")>>

\* getifaddrs() begins with the loopback's link address.
Addrs == <<[name |-> "lo", inet |-> FALSE, ip |-> "1.0.0.0"],
           [name |-> "lo", inet |-> TRUE, ip |-> "127.0.0.1"],
           [name |-> "eth0", inet |-> TRUE, ip |-> "10.0.0.2"]>>

Machine(sys, mounts) == [sys |-> sys, mounts |-> mounts, addrs |-> Addrs]
Upgrades == {Machine(sys, mounts) : sys \in {Old, New2}, mounts \in {NoDisk, Half, Full, Twice}}
OneDisk  == {Machine(Old, mounts) : mounts \in {NoDisk, Half}}

\* No definition or property tells one reporter from another.
ReporterSymmetry == Permutations({r1, r2})

\* A reporter that was never connected, one that knows a database long gone.
New      == {-1}
NewOrOld == {-1, 9}
=============================================================================
