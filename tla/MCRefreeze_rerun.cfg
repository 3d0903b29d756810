SPECIFICATION Spec
CONSTANTS
  good = good  bad = bad
  Placeholder = placeholder
  Null = null
  Addresses <- MCAddresses
  Genuine <- MCGenuine
  Digests <- MCDigests
  Spenders <- MCSpenders
  Pinned <- MCPinned
  Generated <- MCGenerated
  Source = "order.py"
  Registry = "deployments.json"
  Package = "package.json"
  Changelog = "CHANGELOG.md"
  MaxVersion = 2
INVARIANT
  NormalEndIsProven
