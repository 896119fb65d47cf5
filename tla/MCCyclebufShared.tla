-------------------------- MODULE MCCyclebufShared --------------------------
EXTENDS Cyclebuf

CONSTANTS r1, r2, w1, b1

MCReaders == {r1, r2}
MCWriters == {w1}
MCBytes == {b1}
=============================================================================
