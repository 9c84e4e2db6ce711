----------------------------- MODULE MCScraper ------------------------------
(***************************************************************************)
(* Scraper for TLC: eight hosts, each with the reports that matter to it.  *)
(***************************************************************************)
EXTENDS Scraper

OnGPU(n, mb) == [name |-> n, size |-> mb * MB, vram |-> mb * MB]
OnCPU(n, mb) == [name |-> n, size |-> mb * MB, vram |-> 0]

Resident(M) == [resident |-> M, usage |-> 0, waiting |-> 0]
Metrics(u, w) == [resident |-> {OnGPU("m1", 500)}, usage |-> u, waiting |-> w]

Host(type, cap, total, reports) ==
  [type |-> type, maxConcurrent |-> cap, vramTotalMB |-> total,
   models |-> {"m1"}, labels |-> <<>>, reports |-> reports]

GPULoads == {Resident({}), Resident({OnGPU("m1", 500)}),
             Resident({OnGPU("m1", 500), OnGPU("m2", 450)})}

MCAutoGPU == Host("ollama", 0, 1000, GPULoads)

MCHosts ==
  { MCAutoGPU,
    Host("ollama", 0, 0, GPULoads),                                 \* VRAM unknown
    Host("ollama", 2, 1000, GPULoads),                              \* capped
    Host("ollama", 0, 1000, {Resident({})}),                        \* never loads
    Host("ollama", 0, 1000, {Resident({}), Resident({OnCPU("m1", 900)}),
                             Resident({OnCPU("m1", 20), OnCPU("m2", 1990)})}),
    Host("ollama", 0, 1000, {Resident({[name |-> "m1", size |-> 5, vram |-> 5]}),
                             Resident({OnGPU("m1", 15)})}),         \* tiny models
    [Host("vllm", 0, 0, {Metrics(10, 0), Metrics(95, 3)}) EXCEPT !.labels = <<NaN>>],
    [Host("vllm", 8, 0, {Metrics(40, 1), Resident({})}) EXCEPT !.models = {}] }

MCOneHost == {MCAutoGPU}

=============================================================================
