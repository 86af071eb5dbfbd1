-------------------------- MODULE MCArtifactStartup --------------------------
(***************************************************************************)
(* Two tasks over two lifecycles, an offline gate, and a manifest of which *)
(* two files are written to; the others stay what they are.                *)
(***************************************************************************)
EXTENDS ArtifactStartup, TLC

MCEntry(name) == [name |-> name, digest |-> IF name = "adapter_model.safetensors" THEN "a1" ELSE "d"]
MCManifest ==
    [digest |-> "m1", candidate |-> "kova-cosmo", revision |-> "r1", adapter |-> "a1",
     remoteCode |-> FALSE, base |-> "local snapshot", rank |-> 8, indexed |-> {}, shards |-> {},
     files |-> <<MCEntry("config.json"), MCEntry("tokenizer.json"), MCEntry("tokenizer_config.json"),
                 MCEntry("adapter_config.json"), MCEntry("adapter_model.safetensors"),
                 MCEntry("model.safetensors")>>]
MCStray == {"stray.safetensors"}
MCWritable == MCStray \union {"adapter_model.safetensors", "model.safetensors"}
TaskSymmetry == Permutations(Task)
MCCatalog == [bundle |-> "m1", candidate |-> "kova-cosmo", revision |-> "r1", adapter |-> "a1",
              source |-> "Qwen/Qwen3-0.6B", context |-> 32768]
MCLoader == [enabled |-> TRUE, loading |-> TRUE, gpu |-> TRUE, candidate |-> "kova-cosmo", context |-> 8192]
MCPolicy(root) == [status |-> "source_only_serving_blocked", safety |-> {}, verification |-> TRUE,
                   root |-> root, manifest |-> "manifest", timeout |-> 60]
MCPolicies == <<MCPolicy("first"), MCPolicy("second")>>
=============================================================================
