-------------------------------- MODULE MCQsfp --------------------------------
EXTENDS Qsfp

CONSTANTS cr4, sr4_40, sr4_100, none

\* A 100G copper cable, a 40G optic and a 100G optic.
MCKinds == {cr4, sr4_40, sr4_100}
MCCopperKinds == {cr4}
MCOptic40Kinds == {sr4_40}
\* Two temperatures are enough for one port to be hotter than the other.
MCTemps == {1, 2}
\* The 40G optic flags receive loss of signal on lane 2 and a high
\* temperature warning at -0.5 C; the 100G optic a high transmit bias
\* alarm on lane 3 and a low receive power warning on lane 1 at 25 C.
MCLowerPage ==
  [k \in MCKinds |->
     CASE k = sr4_40 -> [ZeroPage EXCEPT ![3] = 2, ![6] = 32, ![22] = 255, ![23] = 128]
       [] k = sr4_100 -> [ZeroPage EXCEPT ![9] = 16, ![12] = 128, ![22] = 25]
       [] OTHER -> ZeroPage]
=============================================================================
