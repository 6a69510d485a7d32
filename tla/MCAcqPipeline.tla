--------------------------- MODULE MCAcqPipeline ---------------------------
(* The code's two buffers; transfers of up to two units, so that a write() *)
(* can be partial; five units, one more than the buffers hold, so that     *)
(* both are reused; a second SIGINT after the first.                       *)
EXTENDS AcqPipeline

MCNumBufs  == 2
MCMaxLen   == 2
MCMaxUnits == 5
MCMaxPosts == 1
=============================================================================
