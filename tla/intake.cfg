SPECIFICATION FairSpec
CONSTANTS
  shopify = shopify
  Channel = {shopify}
  Order = {o1}
  ChannelOf <- ShopifyOrders
  ByUpdate = {shopify}
  Webhooks = {shopify}
  Period <- Scheduled
  Lookback <- LooksBack
  MaxChange <- Twice
  MaxAttempts = 2
INVARIANTS EnqueuedOnce UpdatedOrdersAreFound
PROPERTIES ChangesArrive AcceptedIsSettled
