------------------------------ MODULE MCSdhcHost ------------------------------
(* A command with and without busy signalling, PIO reads and writes of up to *)
(* two blocks, whose sizes leave nothing or one to three bytes of a word,    *)
(* DMA transfers, and a block that is too large.                             *)
EXTENDS SdhcHost

Command(b) == [data |-> "none", dir |-> "none", blocks |-> 0, size |-> 0, busy |-> b]
Data(m, d, n, bytes) == [data |-> m, dir |-> d, blocks |-> n, size |-> bytes, busy |-> FALSE]

AllKinds == {Command(TRUE), Command(FALSE),
             Data("pio", "read", 1, 6), Data("pio", "read", 2, 8), Data("pio", "write", 2, 7),
             Data("pio", "write", 1, 5), Data("dma", "read", 1, 8), Data("dma", "write", 2, 8),
             Data("dma", "read", 1, 9)}

TwoBlocks == {Data("pio", "read", 2, 8)}
===============================================================================
