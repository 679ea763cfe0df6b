----------------------------- MODULE MCBenchmark -----------------------------
(* One configuration for each way through the harnesses. *)
EXTENDS Benchmark

Way(program, style, ingress, createdSource, asserted, stock) ==
    [program |-> program, style |-> style, ingress |-> ingress, createdSource |-> createdSource,
     asserted |-> asserted, stock |-> stock]

Ways ==
    {Way("buy_intent", "burst", "node-fetch", "postgres", TRUE, 2),
     Way("buy_intent", "burst", "go-http", "kafka_seckill_result", TRUE, 3),
     Way("buy_intent", "burst", "direct_kafka", "kafka_seckill_result", TRUE, 2),
     Way("buy_intent", "burst", "franz_go", "kafka_seckill_result", FALSE, 3),
     Way("buy_intent", "steady_state", "node-fetch", "kafka_seckill_result", TRUE, 2),
     Way("buy_intent", "steady_state", "direct_kafka", "kafka_seckill_result", TRUE, 2),
     Way("buy_intent", "steady_state", "franz_go", "kafka_seckill_result", FALSE, 2),
     Way("checkout", "burst", "node-fetch", "postgres", FALSE, 3)}

==============================================================================
