---------------------------- MODULE MCUcxBroker ----------------------------
EXTENDS UcxBroker, TLC

CONSTANTS j1, j2

Body == [workload |-> "Training", vram |-> 48, gpus |-> 1, ram |-> Absent,
         cores |-> Absent, cuda |-> TRUE, external |-> Absent, file |-> TRUE]

\* One job for each way: trained or not for want of a file, a completion, a
\* rendering, one that stays at home and one that may not leave.
MCBodies == {Body, [Body EXCEPT !.file = FALSE],
             [Body EXCEPT !.workload = "Inference", !.vram = Absent, !.gpus = Absent, !.ram = 64],
             [Body EXCEPT !.workload = "Rendering", !.gpus = 257, !.vram = 16],
             [Body EXCEPT !.workload = "none such"],
             [Body EXCEPT !.vram = 8],
             [Body EXCEPT !.external = FALSE]}

MCLocalGpu == [vram |-> 12, count |-> 1, cuda |-> TRUE]
MCLocalSize == [ram |-> 16, cores |-> 8, deny |-> {}]
MCExternals == <<"gpu-ai-finetune", "gpu-ai-inference", "akash-network", "vast-ai">>
=============================================================================
