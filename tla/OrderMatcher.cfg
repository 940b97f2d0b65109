CONSTANTS
  ann = ann
  bob = bob
  Nobody = nobody
  shard0 = shard0
  shard1 = shard1
  Shards = {shard0}
  Symbols = {"btc"}
  ShardFor <- MCShardFor
  Users <- MCUsers
  Prices = {1, 2}
  Requests <- MCRequests
  MaxDepth = 2
  MaxOrders = 4
SPECIFICATION Spec
INVARIANTS NothingLost PriceTimePriority
