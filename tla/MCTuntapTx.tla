----------------------------- MODULE MCTuntapTx -----------------------------
EXTENDS TuntapTx

\* Four packets: one with no tuntap interface, the others of one or two
\* buffers, in vectors of at most two packets.
MCPackets == 1 .. 4
MCUnknown == {2}
MCSegCounts == {1, 2}
\* One vector per packet at most: to_tx never fills (vnet suspends the
\* node before MaxOutstandingTxRefs refs are outstanding).
MCToTxCap == 4
MCErrors == {EIO, EMSGSIZE}
MCErrorsAll == {EIO, EMSGSIZE, EBADF}
=============================================================================
