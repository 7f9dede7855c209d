SPECIFICATION Spec
CONSTANTS
  a1 = a1
  a2 = a2
  Handlers <- OneAdmin
  Products <- TwoProducts
  OnSale <- OneProduct
  Skus = {"sku1", "sku2"}
  Slugs <- TheSlugs
  DraftSlug <- DraftSlugs
  Prices = {100, 40}
  ProductUpdates <- TheProductUpdates
  ConfigUpdates <- TheConfigUpdates
  MaxBanners = 2
  MaxRequests = 2
INVARIANTS
  DashboardOpens
CHECK_DEADLOCK FALSE
