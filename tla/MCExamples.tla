----------------------------- MODULE MCExamples -----------------------------
(* A point of the touch screen, and every example. *)
EXTENDS Examples

MCTouches == {<<1, 2>>}
MCRunning == {"cmd_reply", "semaphores", "fifo_transfers", "dma_arm_to_dsp",
              "dma_dsp_to_arm", "dma_async", "codegen_check", "benchmark"}
=============================================================================
