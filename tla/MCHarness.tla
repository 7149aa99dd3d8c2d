----------------------------- MODULE MCHarness -----------------------------
(* Bounds for Harness: patches that act every few passes, a run of a few
   instructions, a script of two keys and one watched object. *)
EXTENDS Harness

MCDisableLists == {{}, {"fake_vtable_trap"}, {"null_pc_trap"}, {"nullguard_page"},
                   {"module19_sweep", "hal33_force_success"}}
MCScript == <<"k5", "k7">>

=============================================================================
