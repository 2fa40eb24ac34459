-------------------------- MODULE MCPackageFraming --------------------------
(* Packages of the lengths at which the headers and the buffers change. *)
EXTENDS PackageFraming

\* Short; over 125 and 255; the longest that fits with 8 and with 2 bytes of
\* header; one byte too long for either.
MCLengths == {2, 300, 4088, 4094, 4095}
MCOffsets == 0..4
AllEnvironments == {"sound", "long", "faulty"}
OnlyLong == {"long"}
=============================================================================
