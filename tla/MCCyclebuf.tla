----------------------------- MODULE MCCyclebuf -----------------------------
EXTENDS Cyclebuf

CONSTANTS r1, w1, b1, b2

MCReaders == {r1}
MCWriters == {w1}
MCBytes == {b1, b2}
=============================================================================
