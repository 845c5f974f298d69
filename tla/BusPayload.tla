----------------------------- MODULE BusPayload -----------------------------
(***************************************************************************)
(* What internal/bus makes of one message: its topic and partition key     *)
(* (topic.go, types.go), its chunks (chunking.go), the envelopes that are  *)
(* published (envelope.go, publisher.go), the summary that is previewed    *)
(* (preview.go), and which configurations a bus accepts (bus.go).          *)
(*                                                                         *)
(* A dotted name is the sequence of its parts, so a topic is too.  The     *)
(* bytes of a payload are numbered from 0; a chunk is [start, end).        *)
(***************************************************************************)
EXTENDS Integers, Sequences

CONSTANTS MinPayload, MaxPayload     \* 256 KiB and 10 MiB

ASSUME PayloadAssumption == MinPayload \in Nat \ {0} /\ MaxPayload \in Nat

-----------------------------------------------------------------------------
(* topic.go *)
Prefixed(mic, symbol) == IF mic = "" THEN symbol ELSE <<mic>> \o symbol

PartitionKey(key) == Prefixed(key.mic, key.symbol)

(* The topic of fundamentals names the symbol alone. *)
Subtopic(domain, key) ==
  IF domain = "fundamentals" THEN key.symbol ELSE Prefixed(key.mic, key.symbol)

BuildTopic(config, domain, key) ==
  config.topicPrefix \o <<config.env, domain, "v1">> \o Subtopic(domain, key)

Domains == {"bars", "ticks", "fundamentals", "news", "fx", "signals", "orders", "fills",
            "positions", "metrics", "dlq", "control"}
ValidTopic(topic) ==
  /\ Len(topic) >= 4
  /\ topic[2] # ""
  /\ topic[3] \in Domains
  /\ topic[4] \in {"v1", "v2"}        \* whatever begins with a "v"

ParseTopic(topic) ==
  [prefix |-> topic[1], env |-> topic[2], domain |-> topic[3], version |-> topic[4],
   subtopic |-> SubSeq(topic, 5, Len(topic))]

-----------------------------------------------------------------------------
(* chunking.go *)
Ceil(n, d) == (n + d - 1) \div d
Smaller(a, b) == IF a < b THEN a ELSE b

Floor(size, limit) == IF size <= limit THEN 1 ELSE size \div limit  \* fault: no Ceil
EstimateChunkCount(size, limit) ==
  IF size <= limit THEN 1 ELSE Ceil(size, limit)

FloorChunks(size, limit) ==       \* fault: the remainder gets no chunk
  [i \in 1..Floor(size, limit) |->
     [start |-> (i - 1) * limit, end |-> Smaller(i * limit, size)]]
ChunkPayload(size, limit) ==
  IF size <= limit THEN << [start |-> 0, end |-> size] >>
  ELSE [i \in 1..Ceil(size, limit) |->
          [start |-> (i - 1) * limit, end |-> Smaller(i * limit, size)]]

(* The preview spreads the remainder evenly instead. *)
GetChunkingInfo(size, limit) ==
  LET count == EstimateChunkCount(size, limit) IN
  [i \in 1..count |-> (size \div count) + (IF i <= size % count THEN 1 ELSE 0)]

(* envelope.go and publisher.go: one message a chunk.  The chunk's index    *)
(* and the number of chunks go into the Extensions of the envelope, and of  *)
(* the envelope only the headers are handed to the bus.                     *)
BuildEnvelope(config, domain, key) ==
  [topic |-> BuildTopic(config, domain, key), partitionKey |-> PartitionKey(key)]

Message(envelope, chunk) ==
  [topic |-> envelope.topic, partitionKey |-> envelope.partitionKey, payload |-> chunk]

PublishBars(config, key, size) ==
  LET chunks == ChunkPayload(size, config.maxPayload) IN
  [i \in DOMAIN chunks |-> Message(BuildEnvelope(config, "bars", key), chunks[i])]

(* PublishQuote and PublishFundamentals repeat PublishBars. *)
PublishOther(config, domain, key, size) ==
  LET chunks == ChunkPayload(size, config.maxPayload) IN
  [i \in DOMAIN chunks |-> Message(BuildEnvelope(config, domain, key), chunks[i])]

Publish(config, domain, key, size) ==
  IF domain = "bars" THEN PublishBars(config, key, size)
                     ELSE PublishOther(config, domain, key, size)

Preview(config, domain, key, size) ==
  LET sizes == GetChunkingInfo(size, config.maxPayload) IN
  [topic |-> BuildTopic(config, domain, key), partitionKey |-> PartitionKey(key),
   chunkSizes |-> sizes, messageCount |-> Len(sizes)]

-----------------------------------------------------------------------------
(* bus.go: `backendConfig` tells whether the settings of the backend that   *)
(* is named are complete.                                                   *)
ValidRetryConfig(retry) ==
  retry.attempts > 0 /\ retry.baseMs > 0 /\ retry.maxDelayMs >= retry.baseMs

(* The threshold is a share of the window, in hundredths. *)
ValidBreakerConfig(breaker) ==
  /\ breaker.window > 0 /\ breaker.resetTimeoutMs > 0 /\ breaker.halfOpenProbes > 0
  /\ breaker.failureThreshold > 0 /\ breaker.failureThreshold <= 100

ValidPublisherConfig(config) ==
  config.backend \in {"nats", "kafka"} /\ config.backendConfig

ValidateConfig(config) ==
  /\ config.env \in {"dev", "staging", "prod"}
  /\ config.topicPrefix # <<>>
  /\ MinPayload <= config.maxPayload /\ config.maxPayload <= MaxPayload
  /\ config.enabled => ValidPublisherConfig(config)
  /\ ValidRetryConfig(config.retry)
  /\ ValidBreakerConfig(config.breaker)

(* publisher.go: Kafka passes the validation and is not implemented. *)
NewBusPublisher(config) == config.backend = "nats" /\ config.reachable

(* What a bus can be asked for; nothing when NewBus fails. *)
NewBus(config) ==
  IF ~ ValidateConfig(config) THEN {}
  ELSE IF ~ config.enabled THEN {"preview"}
  ELSE IF NewBusPublisher(config) THEN {"preview", "publish"} ELSE {}
=============================================================================
